---- MODULE Spec2Model ----
(***************************************************************************)
(* Cross-source reconciliation of the fund data pipeline:                  *)
(*   - the ISIN priority merge  (src/maintenance/merge_isin_master_priority.py) *)
(*   - the security-master status lifecycle                                *)
(*                       (src/maintenance/merge_security_master_status.py) *)
(*   - the NAV data mart views  (src/maintenance/build_nav_data_mart.py)   *)
(* Text is a sequence of one-character strings, so that strip(), upper()   *)
(* and replace() are computed and not assumed.  SQL NULL / Python None is  *)
(* the value None.  A table is a set of rows; a SELECT without a total     *)
(* ORDER BY returns its rows in any order the ORDER BY allows.             *)
(***************************************************************************)
EXTENDS Integers, Sequences, FiniteSets, TLC

VARIABLES
    job,            \* which maintenance script the scheduler runs:
                    \* "isin" | "lifecycle" | "nav" | "snapshot" | "tickermap"
    \* ---- ISIN merge: database tables
    ft_static,      \* stg_ft_static_detail
    sa_static,      \* stg_sa_static_info
    yf_identity,    \* stg_yf_static_identity
    store,          \* stg_security_master_isin, committed rows
    \* ---- ISIN merge: one execution of run()
    isin_pc,        \* "idle" | "merged" | "upserted" | "committed" | "failed"
    isin_txn,       \* stg_security_master_isin as the open transaction sees it
    ft_rows,        \* run(): ft_rows
    sa_rows,        \* run(): sa_rows
    yf_rows,        \* run(): yf_rows
    merged,         \* run(): merged
    isin_now,       \* number of runs started; upsert_merged's `now`
    isin_pre,       \* history: store when the current run started
    isin_prev,      \* history: result of the previous committed run, while
                    \* the staging tables have not changed since
    \* ---- lifecycle merge: database and clock
    registry,       \* stg_security_master, committed rows
    clock,          \* the day datetime.now() last returned
    \* ---- lifecycle merge: the last execution of merge_security_master
    life_runs,      \* number of executions so far
    life_outcome,   \* "none" | "committed" | "failed"
    ft_master,      \* stg_ft_master_ticker as the run read it
    yf_master,      \* stg_yf_master_ticker as the run read it
    sa_master,      \* stg_sa_master_ticker as the run read it
    life_missing,   \* the sources whose table did not exist when the run read it
    source_rows,    \* merge_security_master(): source_rows
    snapshots,      \* merge_security_master(): snapshots
    today,          \* merge_security_master(): today
    inactive_days,  \* merge_security_master(): inactive_days
    cutoff,         \* merge_security_master(): cutoff
    life_txn,       \* stg_security_master as the run's transaction saw it last
    life_done,      \* number of writing statements of the run that completed (0..4)
    promoted_count,     \* merge_security_master(): promoted_count
    inactivated_count,  \* merge_security_master(): inactivated_count
    reactivated_count,  \* merge_security_master(): reactivated_count
    life_pre,       \* history: registry when the run started
    after_upsert,   \* history: the transaction's table after the snapshot upsert
    after_promote,  \* history: ... after the promote UPDATE
    after_expire,   \* history: ... after the expire UPDATE
    life_expired,   \* history: tickers an expire UPDATE of a committed run moved to
                    \* inactive while no source listed them, and that no
                    \* committed run's snapshot has held since
    life_expired_pre,   \* history: life_expired when the run started
    \* ---- NAV data mart: database tables and views
    ft_nav,         \* stg_ft_daily_nav
    yf_nav,         \* stg_yf_daily_nav
    sa_nav,         \* stg_sa_daily_nav
    nav_yf_master,  \* stg_yf_master_ticker, as the NAV views join it
    nav_sa_master,  \* stg_sa_master_ticker, as the NAV views join it
    fx_rates,       \* daily_fx_rates
    nav_views,      \* "none" | "built" | "failed": vw_nav_unified and vw_nav_usd
    \* ---- lifecycle merge: load_latest_source_rows and build_snapshot on their own
    snap_pc,        \* "idle" | "loaded" | "built"
    snap_ft,        \* stg_ft_master_ticker
    snap_yf,        \* stg_yf_master_ticker
    snap_sa,        \* stg_sa_master_ticker
    snap_missing,   \* the sources whose table does not exist
    snap_rows,      \* the list load_latest_source_rows returned
    snap_out,       \* the list build_snapshot returned
    \* ---- ISIN merge: build_ticker_to_isin_map on its own
    map_pc,         \* "idle" | "built"
    map_ft,         \* the argument ft_rows
    map_sa,         \* the argument sa_rows
    map_out,        \* the dict build_ticker_to_isin_map returned
    \* ---- ISIN merge: load_ft_candidates and load_sa_candidates on their own
    ld_pc,          \* "idle" | "loaded"
    ld_ft_static,   \* stg_ft_static_detail
    ld_sa_static,   \* stg_sa_static_info
    ld_ft_rows,     \* the list load_ft_candidates returned
    ld_sa_rows,     \* the list load_sa_candidates returned
    \* ---- serving view: the latest_nav common table expression
    ln_pc,          \* "idle" | "selected"
    ln_ft,          \* stg_ft_daily_nav
    ln_yf,          \* stg_yf_daily_nav
    ln_sa,          \* stg_sa_daily_nav
    latest_nav,     \* the rows latest_nav returned
    \* ---- holdings loader and data quality report
    hold_pc,        \* "idle" | "written" | "failed" | "reported"
    stg_ft_holdings,\* the table: how many rows hold each value (ids and timestamps aside)
    hold_clock,     \* the calendar day
    hold_calls,     \* calls of write_holdings so far
    hold_input,     \* ft_holdings of the last call
    hold_today,     \* `today` of the last call
    hold_prev,      \* the input of the committed call before, and the table it left
    dq_report,      \* the row run_checks returned for the table, and the table it read
    \* ---- orchestration: run_data_pipeline
    pipe_pc,        \* "start" | "sources" | "post" | "finished" | "failed"
    pipe_cfg,       \* the flags of the call and whether prefect is installed
    pipe_src,       \* each source pipeline: "pending" | "running" | "done" | "error"
    pipe_step,      \* the post-processing step the flow is at
    pipe_attempt,   \* failed attempts of that step so far
    pipe_running,   \* a post-processing script is running
    pipe_started,   \* history: the steps started, in the order of their first start
    pipe_exit,      \* history: the last exit status of every step
    pipe_nonzero    \* history: the first step that exited non-zero, 0 for none

isinVars == <<ft_static, sa_static, yf_identity, store, isin_pc, isin_txn,
              ft_rows, sa_rows, yf_rows, merged, isin_now, isin_pre, isin_prev>>

lifeVars == <<registry, clock, life_runs, life_outcome, ft_master, yf_master, sa_master,
              life_missing,
              source_rows, snapshots, today, inactive_days, cutoff, life_txn, life_done,
              promoted_count, inactivated_count, reactivated_count, life_pre,
              after_upsert, after_promote, after_expire, life_expired, life_expired_pre>>

navVars == <<ft_nav, yf_nav, sa_nav, nav_yf_master, nav_sa_master, fx_rates, nav_views>>

snapVars == <<snap_pc, snap_ft, snap_yf, snap_sa, snap_missing, snap_rows, snap_out>>

mapVars == <<map_pc, map_ft, map_sa, map_out>>

ldVars == <<ld_pc, ld_ft_static, ld_sa_static, ld_ft_rows, ld_sa_rows>>

\* the variables of the subsystems added after the first five
lnVars == <<ln_pc, ln_ft, ln_yf, ln_sa, latest_nav>>

holdVars == <<hold_pc, stg_ft_holdings, hold_clock, hold_calls, hold_input, hold_today,
              hold_prev, dq_report>>

pipeVars == <<pipe_pc, pipe_cfg, pipe_src, pipe_step, pipe_attempt, pipe_running,
              pipe_started, pipe_exit, pipe_nonzero>>

moreVars == <<ldVars, lnVars, holdVars, pipeVars>>

\* everything the ISIN merge leaves alone
notIsin == <<job, lifeVars, navVars, snapVars, mapVars, moreVars>>

\* everything the lifecycle merge leaves alone
notLife == <<job, isinVars, navVars, snapVars, mapVars, moreVars>>

\* everything the NAV data mart leaves alone
notNav == <<job, isinVars, lifeVars, snapVars, mapVars, moreVars>>

\* everything a call of build_snapshot leaves alone
notSnap == <<job, isinVars, lifeVars, navVars, mapVars, moreVars>>

\* everything a call of build_ticker_to_isin_map leaves alone
notMap == <<job, isinVars, lifeVars, navVars, snapVars, moreVars>>

\* the five subsystems above
firstVars == <<isinVars, lifeVars, navVars, snapVars, mapVars>>

\* everything a call of the candidate loaders leaves alone
notLd == <<job, firstVars, lnVars, holdVars, pipeVars>>

\* everything an evaluation of latest_nav leaves alone
notLn == <<job, firstVars, ldVars, holdVars, pipeVars>>

\* everything the holdings loader and the quality report leave alone
notHold == <<job, firstVars, ldVars, lnVars, pipeVars>>

\* everything the orchestration leaves alone
notPipe == <<job, firstVars, ldVars, lnVars, holdVars>>

vars == <<job, firstVars, moreVars>>

-----------------------------------------------------------------------------
(* Bounds of the model *)

MaxFtRows == 2      \* rows of stg_ft_static_detail
MaxSaRows == 1      \* rows of stg_sa_static_info
MaxYfRows == 2      \* rows of stg_yf_static_identity
MaxRuns == 2        \* executions of run() in one behaviour
MaxFtMaster == 1    \* rows of stg_ft_master_ticker
MaxYfMaster == 2    \* rows of stg_yf_master_ticker
MaxSaMaster == 1    \* rows of stg_sa_master_ticker
MaxLifeRuns == 3    \* executions of merge_security_master in one behaviour
MaxDay == 2         \* the clock runs over the days 1..MaxDay
MaxInactiveDays == 1    \* --inactive-days ranges over -1..MaxInactiveDays
MaxMissing == 1     \* master-list tables that do not exist at a time
MaxMapFt == 3       \* candidates in the argument ft_rows of build_ticker_to_isin_map
MaxMapSa == 3       \* candidates in the argument sa_rows of build_ticker_to_isin_map
MaxFtNav == 2       \* rows of stg_ft_daily_nav
MaxYfNav == 2       \* rows of stg_yf_daily_nav
MaxSaNav == 1       \* rows of stg_sa_daily_nav
MaxFxRates == 2     \* rows of daily_fx_rates
MaxHoldInput == 2   \* tuples in one ft_holdings list
MaxHoldCalls == 3   \* calls of write_holdings
MaxHoldDay == 2     \* calendar days the holdings loader runs on

-----------------------------------------------------------------------------
(* Text *)

None == <<"<None>">>

Lowers == <<"a", "b", "c", "d", "e", "f", "g", "h", "i", "j", "k", "l", "m",
            "n", "o", "p", "q", "r", "s", "t", "u", "v", "w", "x", "y", "z">>
Uppers == <<"A", "B", "C", "D", "E", "F", "G", "H", "I", "J", "K", "L", "M",
            "N", "O", "P", "Q", "R", "S", "T", "U", "V", "W", "X", "Y", "Z">>

Whitespace == {" ", "\t"}

\* str.upper(), the letters it changes
UpperMap ==
    [c \in {Lowers[i] : i \in 1..Len(Lowers)} |->
        Uppers[CHOOSE i \in 1..Len(Lowers) : Lowers[i] = c]]

\* str.upper(), one character
UpperChar(c) == IF c \in DOMAIN UpperMap THEN UpperMap[c] ELSE c

\* str.upper()
Upper(s) == [i \in 1..Len(s) |-> UpperChar(s[i])]

\* str.strip()
Strip(s) ==
    LET keep == {i \in 1..Len(s) : s[i] \notin Whitespace}
    IN  IF keep = {} THEN <<>>
        ELSE LET lo == CHOOSE i \in keep : \A j \in keep : i <= j
                 hi == CHOOSE i \in keep : \A j \in keep : i >= j
             IN  SubSeq(s, lo, hi)

\* str.replace(" ", "")
RECURSIVE RemoveSpaces(_)
RemoveSpaces(s) ==
    IF s = <<>> THEN <<>>
    ELSE IF Head(s) = " " THEN RemoveSpaces(Tail(s))
    ELSE <<Head(s)>> \o RemoveSpaces(Tail(s))

\* (v or "")
OrEmpty(v) == IF v = None THEN <<>> ELSE v

\* (a or b) on Optional[str]
Or(a, b) == IF a = None \/ a = <<>> THEN b ELSE a

NULL_MARKERS ==
    { <<>>, <<"-", "-">>, <<"N", "/", "A">>, <<"N", "A">>,
      <<"N", "O", "N", "E">>, <<"N", "U", "L", "L">>, <<"N", "A", "N">> }

IsinLen == 12

\* merge_isin_master_priority._norm_text
IsinNormText(v) ==
    LET s == Strip(OrEmpty(v))
    IN  IF s = <<>> \/ Upper(s) \in NULL_MARKERS THEN None ELSE s

\* merge_isin_master_priority._norm_isin
NormIsin(v) ==
    LET s == IsinNormText(v)
    IN  IF s = None THEN None
        ELSE LET u == Upper(RemoveSpaces(s))
             IN  IF Len(u) # IsinLen THEN None ELSE u

\* MySQL utf8mb4_unicode_ci equality of two non-NULL strings: case
\* insensitive, trailing spaces ignored (PAD SPACE)
RECURSIVE RTrim(_)
RTrim(s) ==
    IF s # <<>> /\ s[Len(s)] = " " THEN RTrim(SubSeq(s, 1, Len(s) - 1)) ELSE s

SqlEq(a, b) == Upper(RTrim(a)) = Upper(RTrim(b))

-----------------------------------------------------------------------------
(* Sequences and orderings *)

Range(s) == {s[i] : i \in 1..Len(s)}

\* every ordering of the rows of a set
Orderings(S) ==
    {s \in [1..Cardinality(S) -> S] : \A i, j \in 1..Cardinality(S) : i # j => s[i] # s[j]}

-----------------------------------------------------------------------------
(* ISIN merge: the rows the staging tables can hold *)

IsinA    == <<"U", "S", "1", "2", "3", "4", "5", "6", "7", "8", "9", "0">>
IsinARaw == <<" ", "u", "s", "1", "2", " ", "3", "4", "5", "6", "7", "8", "9", "0">>
IsinALow == <<"u", "s", "1", "2", "3", "4", "5", "6", "7", "8", "9", "0">>
IsinB    == <<"I", "E", "0", "0", "B", "4", "L", "5", "Y", "9", "8", "3">>
IsinShort == <<"U", "S", "1", "2", "3", "4", "5">>

\* stg_ft_static_detail: ticker, name, ticker_type, ft_ticker NOT NULL
FtStaticUniverse ==
    { [ft_ticker |-> <<"f", "1">>, isin_number |-> IsinARaw, ticker |-> <<"a", "b", "c">>,
       name |-> <<"A", "l", "f", "a">>, ticker_type |-> <<"E", "T", "F">>,
       url |-> <<"u", "1">>, updated_at |-> 2, date_scraper |-> 2],
      [ft_ticker |-> <<"f", "2">>, isin_number |-> IsinA, ticker |-> <<"X", "Y", "Z">>,
       name |-> <<"n", "/", "a">>, ticker_type |-> <<"-", "-">>,
       url |-> None, updated_at |-> 2, date_scraper |-> 2],
      [ft_ticker |-> <<"f", "3">>, isin_number |-> IsinB, ticker |-> <<"a", "b", "c">>,
       name |-> <<"B", "e", "t", "a">>, ticker_type |-> <<"E", "T", "F">>,
       url |-> <<"u", "3">>, updated_at |-> 1, date_scraper |-> 1],
      [ft_ticker |-> <<"f", "4">>, isin_number |-> IsinShort, ticker |-> <<"X", "Y", "Z">>,
       name |-> <<"S", "h", "o", "r", "t">>, ticker_type |-> <<"E", "T", "F">>,
       url |-> None, updated_at |-> 2, date_scraper |-> 2],
      [ft_ticker |-> <<"f", "1">>, isin_number |-> IsinA, ticker |-> <<"a", "b", "c">>,
       name |-> <<"O", "l", "d">>, ticker_type |-> <<"E", "T", "F">>,
       url |-> <<"u", "0">>, updated_at |-> 1, date_scraper |-> 1] }

\* stg_sa_static_info: ticker NOT NULL
SaStaticUniverse ==
    { [ticker |-> <<"x", "y", "z">>, isin_number |-> IsinALow, name |-> <<"S", "a", "1">>,
       asset_type |-> <<"E", "T", "F">>, updated_at |-> 1],
      [ticker |-> <<"a", "b", "c">>, isin_number |-> IsinB, name |-> None,
       asset_type |-> None, updated_at |-> 1] }

\* stg_yf_static_identity: ticker, updated_at NOT NULL
YfIdentityUniverse ==
    { [ticker |-> <<"a", "b", "c">>, name |-> <<"Y", "f", "1">>, updated_at |-> 1, updated_ts |-> 1],
      [ticker |-> <<"x", "y", "z", " ">>, name |-> None, updated_at |-> 1, updated_ts |-> 1],
      [ticker |-> <<"A", "B", "C">>, name |-> <<"Y", "f", "4">>, updated_at |-> 2, updated_ts |-> 1] }

\* UNIQUE KEY uq_ft_static_ft_ticker_date (ft_ticker, date_scraper)
FtStaticKeyOk(tbl) ==
    \A r, q \in tbl :
        (SqlEq(r.ft_ticker, q.ft_ticker) /\ r.date_scraper = q.date_scraper) => r = q

\* UNIQUE KEY uq_sa_info_ticker (ticker)
SaStaticKeyOk(tbl) == \A r, q \in tbl : SqlEq(r.ticker, q.ticker) => r = q

\* UNIQUE KEY uq_yf_identity_ticker_date (ticker, updated_at)
YfIdentityKeyOk(tbl) ==
    \A r, q \in tbl :
        (SqlEq(r.ticker, q.ticker) /\ r.updated_at = q.updated_at) => r = q

-----------------------------------------------------------------------------
(* ISIN merge: merge_isin_master_priority.py *)

Candidate(isin, ticker, name, ticker_type, source, prio, url, ft_ticker, mapped_from) ==
    [isin_number |-> isin, ticker |-> ticker, name |-> name, ticker_type |-> ticker_type,
     source |-> source, source_priority |-> prio, canonical_url |-> url,
     ft_ticker |-> ft_ticker, mapped_from |-> mapped_from]

\* WHERE isin_number IS NOT NULL AND isin_number <> ''
HasIsin(r) == r.isin_number # None /\ ~SqlEq(r.isin_number, <<>>)

\* ORDER BY updated_at DESC, date_scraper DESC
FtOrderOk(a, b) ==
    \/ a.updated_at > b.updated_at
    \/ (a.updated_at = b.updated_at /\ a.date_scraper >= b.date_scraper)

\* the result sets cur.fetchall() can return for load_ft_candidates' query
FtFetch(tbl) ==
    {s \in Orderings({r \in tbl : HasIsin(r)}) :
        \A i, j \in 1..Len(s) : i < j => FtOrderOk(s[i], s[j])}

\* a query that returns the oldest rows first
SaOrderAsc(a, b) == a.updated_at <= b.updated_at

\* ORDER BY updated_at DESC
SaOrderOk(a, b) == a.updated_at >= b.updated_at

SaFetch(tbl) ==
    {s \in Orderings({r \in tbl : HasIsin(r)}) :
        \A i, j \in 1..Len(s) : i < j => SaOrderOk(s[i], s[j])}

\* ORDER BY updated_ts DESC
YfOrderOk(a, b) == a.updated_ts >= b.updated_ts

YfFetch(tbl) ==
    {s \in Orderings(tbl) : \A i, j \in 1..Len(s) : i < j => YfOrderOk(s[i], s[j])}

FtSource == "Financial Times"
YfSource == "Yahoo Finance"
SaSource == "Stock Analysis"

FtPriority == 1
YfPriority == 2
SaPriority == 3

Unknown == <<"U", "n", "k", "n", "o", "w", "n">>

FtCandidate(r, isin_n) ==
    Candidate(isin_n,
              OrEmpty(IsinNormText(r.ticker)),
              Or(IsinNormText(r.name), Or(IsinNormText(r.ticker), isin_n)),
              Or(IsinNormText(r.ticker_type), Unknown),
              FtSource, FtPriority, IsinNormText(r.url), IsinNormText(r.ft_ticker), None)

\* load_ft_candidates: the loop over cur.fetchall()
RECURSIVE LoadFtLoop(_, _, _)
LoadFtLoop(rows, seen, out) ==
    IF rows = <<>> THEN out
    ELSE LET r == Head(rows)
             isin_n == NormIsin(r.isin_number)
         IN  IF isin_n = None \/ isin_n \in seen
             THEN LoadFtLoop(Tail(rows), seen, out)
             ELSE LoadFtLoop(Tail(rows), seen \cup {isin_n}, Append(out, FtCandidate(r, isin_n)))

\* a loader that emits a candidate for every row that has an ISIN
RECURSIVE LoadFtEveryRow(_)
LoadFtEveryRow(rows) ==
    IF rows = <<>> THEN <<>>
    ELSE LET r == Head(rows)
             isin_n == NormIsin(r.isin_number)
         IN  IF isin_n = None THEN LoadFtEveryRow(Tail(rows))
             ELSE <<FtCandidate(r, isin_n)>> \o LoadFtEveryRow(Tail(rows))

load_ft_candidates(fetched) == LoadFtLoop(fetched, {}, <<>>)

SaCandidate(r, isin_n) ==
    Candidate(isin_n,
              OrEmpty(IsinNormText(r.ticker)),
              Or(IsinNormText(r.name), Or(IsinNormText(r.ticker), isin_n)),
              Or(IsinNormText(r.asset_type), Unknown),
              SaSource, SaPriority, None, None, None)

RECURSIVE LoadSaLoop(_, _, _)
LoadSaLoop(rows, seen, out) ==
    IF rows = <<>> THEN out
    ELSE LET r == Head(rows)
             isin_n == NormIsin(r.isin_number)
         IN  IF isin_n = None \/ isin_n \in seen
             THEN LoadSaLoop(Tail(rows), seen, out)
             ELSE LoadSaLoop(Tail(rows), seen \cup {isin_n}, Append(out, SaCandidate(r, isin_n)))

load_sa_candidates(fetched) == LoadSaLoop(fetched, {}, <<>>)

\* mapping[k] = v on a dict
DictPut(m, k, v) == [x \in (DOMAIN m) \cup {k} |-> IF x = k THEN v ELSE m[x]]

EmptyDict == [x \in {} |-> None]

\* mutant of DictGet: a missing key falls back to the key itself
DictGetOrKey(m, k) == IF k \in DOMAIN m THEN m[k] ELSE k

\* mapping.get(k)
DictGet(m, k) == IF k \in DOMAIN m THEN m[k] ELSE None

RECURSIVE MapRows(_, _)
MapRows(rows, mapping) ==
    IF rows = <<>> THEN mapping
    ELSE LET row == Head(rows)
         IN  IF row.ticker # <<>>
             THEN MapRows(Tail(rows), DictPut(mapping, Upper(row.ticker), row.isin_number))
             ELSE MapRows(Tail(rows), mapping)

\* a map in which Stock Analysis is written on top of Financial Times
map_sa_over_ft(ft, sa) == MapRows(sa, MapRows(ft, EmptyDict))

\* SA first, then FT on top of it
build_ticker_to_isin_map(ft, sa) == MapRows(ft, MapRows(sa, EmptyDict))

YahooQuoteUrl == <<"https://finance.yahoo.com/quote/">>

MappedFromTicker == <<"t", "i", "c", "k", "e", "r">>

\* a Yahoo Finance candidate that ranks with Stock Analysis
YfCandidateRankedLast(r, isin_n, t) ==
    Candidate(isin_n, t, Or(IsinNormText(r.name), t), Unknown, YfSource, SaPriority,
              YahooQuoteUrl \o t, None, MappedFromTicker)

YfCandidate(r, isin_n, t) ==
    Candidate(isin_n, t, Or(IsinNormText(r.name), t), Unknown,
              YfSource, YfPriority, YahooQuoteUrl \o t, None, MappedFromTicker)

RECURSIVE LoadYfLoop(_, _, _, _)
LoadYfLoop(rows, ticker_to_isin, seen, out) ==
    IF rows = <<>> THEN out
    ELSE LET r == Head(rows)
             t == Upper(OrEmpty(IsinNormText(r.ticker)))
             isin_n == DictGet(ticker_to_isin, t)
         IN  IF t = <<>> \/ isin_n = None \/ <<isin_n, t>> \in seen
             THEN LoadYfLoop(Tail(rows), ticker_to_isin, seen, out)
             ELSE LoadYfLoop(Tail(rows), ticker_to_isin, seen \cup {<<isin_n, t>>},
                             Append(out, YfCandidate(r, isin_n, t)))

load_yf_candidates(fetched, ticker_to_isin) == LoadYfLoop(fetched, ticker_to_isin, {}, <<>>)

\* mutant of Replaces: the comparison reversed
ReplacesHigher(c, prev) == c.source_priority > prev.source_priority

\* c.source_priority < prev.source_priority
Replaces(c, prev) == c.source_priority < prev.source_priority

\* merge_by_priority: `best` is a dict; it is kept here as the sequence of its
\* values in key insertion order, which is what list(best.values()) returns
RECURSIVE MergeLoop(_, _)
MergeLoop(candidates, best) ==
    IF candidates = <<>> THEN best
    ELSE LET c == Head(candidates)
             at == {i \in 1..Len(best) : best[i].isin_number = c.isin_number}
         IN  IF at = {}
             THEN MergeLoop(Tail(candidates), Append(best, c))
             ELSE LET i == CHOOSE i \in at : TRUE
                  IN  IF Replaces(c, best[i])
                      THEN MergeLoop(Tail(candidates), [best EXCEPT ![i] = c])
                      ELSE MergeLoop(Tail(candidates), best)

merge_by_priority(candidates) == MergeLoop(candidates, <<>>)

StoreRow(c, now) ==
    [isin_number |-> c.isin_number, ticker |-> c.ticker, name |-> c.name,
     ticker_type |-> c.ticker_type, source |-> c.source,
     source_priority |-> c.source_priority, canonical_url |-> c.canonical_url,
     ft_ticker |-> c.ft_ticker, mapped_from |-> c.mapped_from, merged_at |-> now]

\* mutant of UpsertRow: a plain INSERT into a table without uq_isin
UpsertRowNoKey(tbl, c, now) == tbl \cup {StoreRow(c, now)}

\* INSERT ... ON DUPLICATE KEY UPDATE of one row, UNIQUE KEY uq_isin (isin_number)
UpsertRow(tbl, c, now) ==
    LET hit == {r \in tbl : SqlEq(r.isin_number, c.isin_number)}
    IN  IF hit = {} THEN tbl \cup {StoreRow(c, now)}
        ELSE (tbl \ hit) \cup {[StoreRow(c, now) EXCEPT !.isin_number = r.isin_number] : r \in hit}

\* a writer that empties the table and inserts the payload
ReplaceStore(tbl, rows, now) == {StoreRow(rows[i], now) : i \in 1..Len(rows)}

\* upsert_merged: executemany over the payload, in list order
RECURSIVE upsert_merged(_, _, _)
upsert_merged(tbl, rows, now) ==
    IF rows = <<>> THEN tbl
    ELSE upsert_merged(UpsertRow(tbl, Head(rows), now), Tail(rows), now)

\* pymysql.connect(..., autocommit=False)
IsinAutocommit == FALSE

\* a committed row without merged_at (and the table's own timestamps)
NoMergedAt(r) ==
    [isin_number |-> r.isin_number, ticker |-> r.ticker, name |-> r.name,
     ticker_type |-> r.ticker_type, source |-> r.source,
     source_priority |-> r.source_priority, canonical_url |-> r.canonical_url,
     ft_ticker |-> r.ft_ticker, mapped_from |-> r.mapped_from]

NoRun == [known |-> FALSE, rows |-> {}]

IsinInit ==
    /\ ft_static = {}
    /\ sa_static = {}
    /\ yf_identity = {}
    /\ store = {}
    /\ isin_pc = "idle"
    /\ isin_txn = {}
    /\ ft_rows = <<>>
    /\ sa_rows = <<>>
    /\ yf_rows = <<>>
    /\ merged = <<>>
    /\ isin_now = 0
    /\ isin_pre = {}
    /\ isin_prev = NoRun

isinRun == <<store, isin_pc, isin_txn, ft_rows, sa_rows, yf_rows, merged, isin_now, isin_pre>>

\* load_static_to_db writes a row of stg_ft_static_detail
StageFt ==
    /\ job = "isin" /\ isin_pc = "idle" /\ isin_now < MaxRuns
    /\ \E r \in FtStaticUniverse \ ft_static :
          /\ Cardinality(ft_static) < MaxFtRows
          /\ FtStaticKeyOk(ft_static \cup {r})
          /\ ft_static' = ft_static \cup {r}
    /\ isin_prev' = NoRun
    /\ UNCHANGED <<sa_static, yf_identity, isinRun, notIsin>>

StageSa ==
    /\ job = "isin" /\ isin_pc = "idle" /\ isin_now < MaxRuns
    /\ \E r \in SaStaticUniverse \ sa_static :
          /\ Cardinality(sa_static) < MaxSaRows
          /\ SaStaticKeyOk(sa_static \cup {r})
          /\ sa_static' = sa_static \cup {r}
    /\ isin_prev' = NoRun
    /\ UNCHANGED <<ft_static, yf_identity, isinRun, notIsin>>

StageYf ==
    /\ job = "isin" /\ isin_pc = "idle" /\ isin_now < MaxRuns
    /\ \E r \in YfIdentityUniverse \ yf_identity :
          /\ Cardinality(yf_identity) < MaxYfRows
          /\ YfIdentityKeyOk(yf_identity \cup {r})
          /\ yf_identity' = yf_identity \cup {r}
    /\ isin_prev' = NoRun
    /\ UNCHANGED <<ft_static, sa_static, isinRun, notIsin>>

\* a staging row is removed (external cleanup)
Unstage ==
    /\ job = "isin" /\ isin_pc = "idle" /\ isin_now < MaxRuns
    /\ \/ \E r \in ft_static :
             ft_static' = ft_static \ {r} /\ UNCHANGED <<sa_static, yf_identity>>
       \/ \E r \in sa_static :
             sa_static' = sa_static \ {r} /\ UNCHANGED <<ft_static, yf_identity>>
       \/ \E r \in yf_identity :
             yf_identity' = yf_identity \ {r} /\ UNCHANGED <<ft_static, sa_static>>
    /\ isin_prev' = NoRun
    /\ UNCHANGED <<isinRun, notIsin>>

\* run(): connect, ensure_target_table, the three loads, the map, the merge
RunLoad ==
    /\ job = "isin" /\ isin_pc = "idle" /\ isin_now < MaxRuns
    /\ \E ftq \in FtFetch(ft_static), saq \in SaFetch(sa_static), yfq \in YfFetch(yf_identity) :
          LET ft == load_ft_candidates(ftq)
              sa == load_sa_candidates(saq)
              ticker_to_isin == build_ticker_to_isin_map(ft, sa)
              yf == load_yf_candidates(yfq, ticker_to_isin)
          IN  /\ ft_rows' = ft
              /\ sa_rows' = sa
              /\ yf_rows' = yf
              /\ merged' = merge_by_priority(ft \o yf \o sa)
    /\ isin_now' = isin_now + 1
    /\ isin_pre' = store
    /\ isin_txn' = store
    /\ isin_pc' = "merged"
    /\ UNCHANGED <<ft_static, sa_static, yf_identity, store, isin_prev, notIsin>>

\* run(): a query of the load phase raises; except: rollback
RunLoadRaise ==
    /\ job = "isin" /\ isin_pc = "idle" /\ isin_now < MaxRuns
    /\ isin_now' = isin_now + 1
    /\ isin_pre' = store
    /\ isin_txn' = store
    /\ isin_pc' = "failed"
    /\ UNCHANGED <<ft_static, sa_static, yf_identity, store, ft_rows, sa_rows, yf_rows,
                   merged, isin_prev, notIsin>>

\* run(): upsert_merged(cur, merged)
RunUpsert ==
    /\ job = "isin" /\ isin_pc = "merged"
    /\ isin_txn' = upsert_merged(isin_txn, merged, isin_now)
    /\ store' = IF IsinAutocommit THEN isin_txn' ELSE store
    /\ isin_pc' = "upserted"
    /\ UNCHANGED <<ft_static, sa_static, yf_identity, ft_rows, sa_rows, yf_rows, merged,
                   isin_now, isin_pre, isin_prev, notIsin>>

\* run(): executemany raises after k rows; except: conn.rollback()
RunUpsertRaise ==
    /\ job = "isin" /\ isin_pc = "merged"
    /\ \E k \in 0..Len(merged) :
          LET partial == upsert_merged(isin_txn, SubSeq(merged, 1, k), isin_now)
          IN  /\ store' = IF IsinAutocommit THEN partial ELSE store
              /\ isin_txn' = store'
    /\ isin_pc' = "failed"
    /\ UNCHANGED <<ft_static, sa_static, yf_identity, ft_rows, sa_rows, yf_rows, merged,
                   isin_now, isin_pre, isin_prev, notIsin>>

\* run(): conn.commit()
RunCommit ==
    /\ job = "isin" /\ isin_pc = "upserted"
    /\ store' = isin_txn
    /\ isin_pc' = "committed"
    /\ UNCHANGED <<ft_static, sa_static, yf_identity, isin_txn, ft_rows, sa_rows, yf_rows,
                   merged, isin_now, isin_pre, isin_prev, notIsin>>

\* run(): conn.commit() raises; except: conn.rollback()
RunCommitRaise ==
    /\ job = "isin" /\ isin_pc = "upserted"
    /\ isin_txn' = store
    /\ isin_pc' = "failed"
    /\ UNCHANGED <<ft_static, sa_static, yf_identity, store, ft_rows, sa_rows, yf_rows,
                   merged, isin_now, isin_pre, isin_prev, notIsin>>

\* run(): finally: conn.close(); the process ends
RunExit ==
    /\ job = "isin" /\ isin_pc \in {"committed", "failed"} /\ isin_now < MaxRuns
    /\ isin_prev' = IF isin_pc = "committed"
                    THEN [known |-> TRUE, rows |-> {NoMergedAt(r) : r \in store}]
                    ELSE isin_prev
    /\ isin_pc' = "idle"
    /\ ft_rows' = <<>>
    /\ sa_rows' = <<>>
    /\ yf_rows' = <<>>
    /\ merged' = <<>>
    /\ UNCHANGED <<ft_static, sa_static, yf_identity, store, isin_txn, isin_now, isin_pre,
                   notIsin>>

IsinNext ==
    \/ StageFt
    \/ StageSa
    \/ StageYf
    \/ Unstage
    \/ RunLoad
    \/ RunLoadRaise
    \/ RunUpsert
    \/ RunUpsertRaise
    \/ RunCommit
    \/ RunCommitRaise
    \/ RunExit

-----------------------------------------------------------------------------
(* ISIN merge: properties *)

\* run(): ft_rows + yf_rows + sa_rows
Pool == ft_rows \o yf_rows \o sa_rows

IsinsOf(cands) == {cands[i].isin_number : i \in 1..Len(cands)}

\* the candidates of a list that carry one ISIN
Group(cands, isin) == {cands[i] : i \in {j \in 1..Len(cands) : cands[j].isin_number = isin}}

MinPriority(cands, isin) ==
    CHOOSE p \in {c.source_priority : c \in Group(cands, isin)} :
        \A c \in Group(cands, isin) : p <= c.source_priority

IsinRunDone == isin_pc \in {"merged", "upserted", "committed"}

NoTwoRowsPerIsin(tbl) ==
    \A r, q \in tbl : NormIsin(r.isin_number) = NormIsin(q.isin_number) => r = q

\* C1: after any sequence of ISIN merge runs the canonical store (committed
\* or as the open transaction sees it) never holds two rows whose ISINs
\* normalize to the same value, and the list merge_by_priority returned holds
\* each ISIN of the pooled candidates exactly once.
C1_OneRowPerIsin ==
    /\ NoTwoRowsPerIsin(store)
    /\ NoTwoRowsPerIsin(isin_txn)
    /\ IsinRunDone =>
          /\ IsinsOf(merged) = IsinsOf(Pool)
          /\ \A i, j \in 1..Len(merged) :
                merged[i].isin_number = merged[j].isin_number => i = j

\* C1 witness: a second run has committed a winner over the row an earlier
\* run stored for the same ISIN, the ISIN having several pooled candidates
C1_Witness ==
    /\ isin_pc = "committed"
    /\ \E r \in store, q \in isin_pre :
          /\ r.isin_number = q.isin_number
          /\ r.merged_at = isin_now
          /\ q.merged_at < isin_now
          /\ Cardinality(Group(Pool, r.isin_number)) > 1

\* the orderings of a set of list positions
RECURSIVE IndexOrders(_)
IndexOrders(S) ==
    IF S = {} THEN {<<>>}
    ELSE UNION {{<<x>> \o f : f \in IndexOrders(S \ {x})} : x \in S}

\* the permutations of a list
Reorderings(s) == {[i \in 1..Len(s) |-> s[f[i]]] : f \in IndexOrders(1..Len(s))}

\* C2: whatever the order in which the candidates are pooled, the winner
\* merge_by_priority picks for an ISIN is a candidate of the pool with the
\* lowest source_priority of that ISIN; an ISIN with a Financial Times
\* candidate is won by Financial Times.
C2_LowestPriorityWins ==
    isin_pc = "merged" =>
        \A p \in Reorderings(Pool) :
            LET m == merge_by_priority(p)
            IN  \A i \in 1..Len(m) :
                   /\ m[i] \in Group(Pool, m[i].isin_number)
                   /\ m[i].source_priority = MinPriority(Pool, m[i].isin_number)
                   /\ (\E c \in Group(Pool, m[i].isin_number) : c.source = FtSource)
                         => m[i].source = FtSource

\* C2 witness: one ISIN has a candidate of each of the three sources
C2_Witness ==
    /\ isin_pc = "merged"
    /\ \E isin \in IsinsOf(Pool) :
          {c.source : c \in Group(Pool, isin)} = {FtSource, YfSource, SaSource}

\* C3 (as claimed): a committed run that follows a committed run, the staging
\* tables unchanged in between, leaves every row with the same value in
\* every field but merged_at.
C3_Idempotent ==
    (isin_pc = "committed" /\ isin_prev.known) =>
        {NoMergedAt(r) : r \in store} = isin_prev.rows

\* the uppercased ticker load_yf_candidates looks up for an identity row
YfLookupKey(r) == Upper(OrEmpty(IsinNormText(r.ticker)))

\* C4: every Yahoo Finance candidate carries the ISIN of a Financial Times or
\* Stock Analysis candidate, an identity row whose uppercased ticker is not
\* in the ticker-to-ISIN map yields no candidate, and the merged ISINs are
\* the Financial Times and Stock Analysis ISINs.
C4_YfAddsNoIsin ==
    IsinRunDone =>
        /\ IsinsOf(yf_rows) \subseteq IsinsOf(ft_rows) \cup IsinsOf(sa_rows)
        /\ \A r \in yf_identity :
              YfLookupKey(r) \notin DOMAIN build_ticker_to_isin_map(ft_rows, sa_rows)
                 => \A i \in 1..Len(yf_rows) : yf_rows[i].ticker # YfLookupKey(r)
        /\ IsinsOf(merged) = IsinsOf(ft_rows) \cup IsinsOf(sa_rows)

\* C4 witness: one identity row was mapped and another had no entry in the map
C4_Witness ==
    /\ isin_pc = "merged"
    /\ yf_rows # <<>>
    /\ \E r \in yf_identity :
          YfLookupKey(r) \notin DOMAIN build_ticker_to_isin_map(ft_rows, sa_rows)

-----------------------------------------------------------------------------
(* Lifecycle merge: the rows the master-list tables can hold *)

\* stg_ft_master_ticker: ft_ticker, ticker, name, ticker_type NOT NULL
FtMasterUniverse ==
    { [ft_ticker |-> <<"a", "b", "c", ":", "X">>, ticker |-> <<" ", "a", "b", "c">>,
       name |-> <<"A", "l", "f", "a">>, ticker_type |-> <<"E", "T", "F">>,
       url |-> <<"u", "1">>, date_scraper |-> 2] }

\* stg_yf_master_ticker: ticker, name, ticker_type NOT NULL
YfMasterUniverse ==
    { [ticker |-> <<"A", "B", "C", " ">>, name |-> <<"N", "/", "A">>,
       ticker_type |-> <<"-", "-">>, url |-> None, date_scraper |-> 2],
      [ticker |-> <<" ", " ">>, name |-> <<"B", "l", "a", "n", "k">>,
       ticker_type |-> <<"E", "T", "F">>, url |-> None, date_scraper |-> 1] }

\* stg_sa_master_ticker: ticker, name, ticker_type NOT NULL
SaMasterUniverse ==
    { [ticker |-> <<"x", "y", "z">>, name |-> <<>>,
       ticker_type |-> <<"F", "u", "n", "d">>, url |-> <<"u", "3">>, date_scraper |-> 1],
      [ticker |-> <<" ">>, name |-> <<"S", "a", "2">>,
       ticker_type |-> <<"F", "u", "n", "d">>, url |-> None, date_scraper |-> 1] }

\* UNIQUE KEY uq_ft_master_ft_ticker (ft_ticker)
FtMasterKeyOk(tbl) == \A r, q \in tbl : SqlEq(r.ft_ticker, q.ft_ticker) => r = q

\* UNIQUE KEY uq_yf_master_ticker (ticker)
YfMasterKeyOk(tbl) == \A r, q \in tbl : SqlEq(r.ticker, q.ticker) => r = q

\* UNIQUE KEY uq_sa_master_ticker (ticker)
SaMasterKeyOk(tbl) == \A r, q \in tbl : SqlEq(r.ticker, q.ticker) => r = q

\* the contents stg_ft_master_ticker can have when a run reads it
FtMasterTables == {t \in SUBSET FtMasterUniverse : Cardinality(t) <= MaxFtMaster /\ FtMasterKeyOk(t)}

YfMasterTables == {t \in SUBSET YfMasterUniverse : Cardinality(t) <= MaxYfMaster /\ YfMasterKeyOk(t)}

SaMasterTables == {t \in SUBSET SaMasterUniverse : Cardinality(t) <= MaxSaMaster /\ SaMasterKeyOk(t)}

-----------------------------------------------------------------------------
(* Lifecycle merge: merge_security_master_status.py *)

STATUS_NEW == "new"
STATUS_ACTIVE == "active"
STATUS_INACTIVE == "inactive"

SOURCE_PRIORITY == <<FtSource, SaSource, YfSource>>

PLACEHOLDER_NULLS ==
    { <<>>, <<"-", "-">>, <<"N", "/", "A">>, <<"N", "A">>,
      <<"N", "O", "N", "E">>, <<"N", "U", "L", "L">>, <<"N", "A", "N">> }

\* merge_security_master_status._norm_text
LifeNormText(value) ==
    LET text == Strip(OrEmpty(value))
    IN  IF Upper(text) \in PLACEHOLDER_NULLS THEN None ELSE text

\* _source_rank
source_rank(source_name) ==
    IF \E i \in 1..Len(SOURCE_PRIORITY) : SOURCE_PRIORITY[i] = source_name
    THEN (CHOOSE i \in 1..Len(SOURCE_PRIORITY) : SOURCE_PRIORITY[i] = source_name) - 1
    ELSE 999

\* sorted(candidates, key=lambda x: _source_rank(x[0])): a stable sort, each
\* pair goes behind the pairs of the same or a lower rank already placed
RECURSIVE InsertByRank(_, _)
InsertByRank(x, s) ==
    IF s = <<>> THEN <<x>>
    ELSE IF source_rank(Head(s)[1]) <= source_rank(x[1])
         THEN <<Head(s)>> \o InsertByRank(x, Tail(s))
         ELSE <<x>> \o s

RECURSIVE SortedLoop(_, _)
SortedLoop(rest, acc) ==
    IF rest = <<>> THEN acc ELSE SortedLoop(Tail(rest), InsertByRank(Head(rest), acc))

sorted_by_rank(candidates) == SortedLoop(candidates, <<>>)

\* a pick that takes the value of the first pair, placeholder or not
PickFirst(ordered) ==
    IF ordered = <<>> THEN None ELSE LifeNormText(Head(ordered)[2])

\* _pick_field: the loop over the ordered pairs
RECURSIVE PickLoop(_)
PickLoop(ordered) ==
    IF ordered = <<>> THEN None
    ELSE LET val == LifeNormText(Head(ordered)[2])
         IN  IF val # None /\ val # <<>> THEN val ELSE PickLoop(Tail(ordered))

pick_field(candidates) == PickLoop(sorted_by_rank(candidates))

\* a query without the WHERE clause
AllRows(tbl) == tbl

\* WHERE date_scraper = (SELECT MAX(date_scraper) FROM <the same table>)
LatestRows(tbl) == {r \in tbl : \A q \in tbl : q.date_scraper <= r.date_scraper}

\* SELECT %s AS source, ticker, name, ticker_type, url
SourceRow(source_name, r) ==
    [source |-> source_name, ticker |-> r.ticker, name |-> r.name,
     ticker_type |-> r.ticker_type, url |-> r.url]

\* the result sets cur.fetchall() can return for one query: there is no ORDER BY
LatestFetch(source_name, tbl) ==
    {[i \in 1..Len(s) |-> SourceRow(source_name, s[i])] : s \in Orderings(LatestRows(tbl))}

\* the sets of sources whose master-list table does not exist
MissingSets == {m \in SUBSET {FtSource, YfSource, SaSource} : Cardinality(m) <= MaxMissing}

\* a table that does not exist has no rows
TablesAgree(ft, yf, sa, missing) ==
    /\ FtSource \in missing => ft = {}
    /\ YfSource \in missing => yf = {}
    /\ SaSource \in missing => sa = {}

\* load_latest_source_rows, one turn of the loop: cur.execute raises on a
\* table that does not exist, the except clause logs a warning and the loop
\* goes on with nothing appended
QueryResult(source_name, tbl, missing) ==
    IF source_name \in missing THEN {<<>>} ELSE LatestFetch(source_name, tbl)

\* load_latest_source_rows: the queries run in the order Financial Times,
\* Yahoo Finance, Stock Analysis and rows.extend() appends each result
load_latest_source_rows(ftq, yfq, saq) == ftq \o yfq \o saq

\* mutant of SnapKey: the ticker as the source row has it
SnapKeyRaw(ticker) == OrEmpty(ticker)

\* build_snapshot: t = (ticker or "").strip().upper()
SnapKey(ticker) == Upper(Strip(OrEmpty(ticker)))

\* build_snapshot: the keys of by_ticker in insertion order
RECURSIVE KeysLoop(_, _)
KeysLoop(rows, keys) ==
    IF rows = <<>> THEN keys
    ELSE LET t == SnapKey(Head(rows).ticker)
         IN  IF t = <<>> \/ t \in Range(keys)
             THEN KeysLoop(Tail(rows), keys)
             ELSE KeysLoop(Tail(rows), Append(keys, t))

\* build_snapshot: the rows appended to by_ticker[t], in input order
RowsOfTicker(rows, t) == SelectSeq(rows, LAMBDA r : SnapKey(r.ticker) = t)

\* sorted(list(sources), key=_source_rank)
SortSources(sources) ==
    CHOOSE s \in Orderings(sources) :
        \A i, j \in 1..Len(s) : i < j => source_rank(s[i]) <= source_rank(s[j])

\* ",".join(...)
RECURSIVE Join(_)
Join(s) ==
    IF s = <<>> THEN ""
    ELSE IF Len(s) = 1 THEN s[1]
    ELSE s[1] \o "," \o Join(Tail(s))

\* build_snapshot: the SecuritySnapshot of one key of by_ticker
SecuritySnapshot(rows, t, as_of) ==
    LET data == RowsOfTicker(rows, t)
        ordered == SortSources({data[i].source : i \in 1..Len(data)})
    IN  [ticker |-> t,
         name |-> pick_field([i \in 1..Len(data) |-> <<data[i].source, data[i].name>>]),
         ticker_type |-> pick_field([i \in 1..Len(data) |-> <<data[i].source, data[i].ticker_type>>]),
         preferred_source |-> ordered[1],
         source_coverage |-> Join(ordered),
         canonical_url |-> pick_field([i \in 1..Len(data) |-> <<data[i].source, data[i].url>>]),
         last_seen |-> as_of]

build_snapshot(rows, as_of) ==
    LET keys == KeysLoop(rows, <<>>)
    IN  [i \in 1..Len(keys) |-> SecuritySnapshot(rows, keys[i], as_of)]

\* the row INSERT INTO stg_security_master creates (id, created_at and
\* updated_at are left out)
RegistryRow(s, status, first_seen) ==
    [ticker |-> s.ticker, name |-> s.name, ticker_type |-> s.ticker_type,
     preferred_source |-> s.preferred_source, source_coverage |-> s.source_coverage,
     canonical_url |-> s.canonical_url, status |-> status,
     first_seen |-> first_seen, last_seen |-> s.last_seen]

\* mutant of UpdateRow: the update also takes status and first_seen of VALUES()
UpdateRowWithStatus(r, s) == RegistryRow(s, STATUS_NEW, s.last_seen)

\* ON DUPLICATE KEY UPDATE name=VALUES(name), ..., last_seen=VALUES(last_seen)
UpdateRow(r, s) ==
    [r EXCEPT !.name = s.name, !.ticker_type = s.ticker_type,
              !.preferred_source = s.preferred_source,
              !.source_coverage = s.source_coverage,
              !.canonical_url = s.canonical_url, !.last_seen = s.last_seen]

\* INSERT ... ON DUPLICATE KEY UPDATE of one snapshot,
\* UNIQUE KEY uq_security_master_ticker (ticker)
UpsertSnapshot(tbl, s, first_seen) ==
    LET hit == {r \in tbl : SqlEq(r.ticker, s.ticker)}
    IN  IF hit = {} THEN tbl \cup {RegistryRow(s, STATUS_NEW, first_seen)}
        ELSE (tbl \ hit) \cup {UpdateRow(r, s) : r \in hit}

\* cur.executemany over the snapshots, in list order
RECURSIVE upsert_snapshots(_, _, _)
upsert_snapshots(tbl, snaps, first_seen) ==
    IF snaps = <<>> THEN tbl
    ELSE upsert_snapshots(UpsertSnapshot(tbl, Head(snaps), first_seen), Tail(snaps), first_seen)

\* mutant of PromoteGuard: the name is not looked at
PromoteGuardNoName(r) ==
    r.status = STATUS_NEW /\ r.ticker # None /\ ~SqlEq(r.ticker, <<>>)

\* WHERE status='new' AND ticker IS NOT NULL AND ticker <> ''
\*   AND name IS NOT NULL AND name <> ''
PromoteGuard(r) ==
    /\ r.status = STATUS_NEW
    /\ r.ticker # None /\ ~SqlEq(r.ticker, <<>>)
    /\ r.name # None /\ ~SqlEq(r.name, <<>>)

\* WHERE status='active' AND last_seen < cutoff
\* an expire UPDATE without the status condition
ExpireGuardAnyStatus(r, cutoff_date) == r.status # STATUS_INACTIVE /\ r.last_seen < cutoff_date

ExpireGuard(r, cutoff_date) == r.status = STATUS_ACTIVE /\ r.last_seen < cutoff_date

\* WHERE status='inactive' AND last_seen >= today
\* a revive UPDATE that wants a row seen after the run date
ReviveGuardLater(r, as_of) == r.status = STATUS_INACTIVE /\ r.last_seen > as_of

ReviveGuard(r, as_of) == r.status = STATUS_INACTIVE /\ r.last_seen >= as_of

\* UPDATE stg_security_master SET status='active' WHERE <PromoteGuard>
Promote(tbl) ==
    {IF PromoteGuard(r) THEN [r EXCEPT !.status = STATUS_ACTIVE] ELSE r : r \in tbl}

\* UPDATE stg_security_master SET status='inactive' WHERE <ExpireGuard>
Expire(tbl, cutoff_date) ==
    {IF ExpireGuard(r, cutoff_date) THEN [r EXCEPT !.status = STATUS_INACTIVE] ELSE r : r \in tbl}

\* UPDATE stg_security_master SET status='active' WHERE <ReviveGuard>
Revive(tbl, as_of) ==
    {IF ReviveGuard(r, as_of) THEN [r EXCEPT !.status = STATUS_ACTIVE] ELSE r : r \in tbl}

\* cur.rowcount of the three UPDATEs
PromoteCount(tbl) == Cardinality({r \in tbl : PromoteGuard(r)})

ExpireCount(tbl, cutoff_date) == Cardinality({r \in tbl : ExpireGuard(r, cutoff_date)})

ReviveCount(tbl, as_of) == Cardinality({r \in tbl : ReviveGuard(r, as_of)})

\* cutoff = (datetime.now() - timedelta(days=inactive_days)).strftime("%Y-%m-%d")
CutoffOf(now, days) == now - days

\* mutant of RunStatements: the three transitions are evaluated on the table
\* as the run found it, the snapshot upsert comes last
RunStatementsUpsertLast(tbl, snaps, as_of, cutoff_date) ==
    LET p == Promote(tbl)
        e == Expire(p, cutoff_date)
        v == Revive(e, as_of)
        u == upsert_snapshots(v, snaps, as_of)
    IN  [upsert |-> u, promote |-> p, expire |-> e, revive |-> u]

\* the statements of merge_security_master in the order the code runs them:
\* the table the transaction sees after each
RunStatements(tbl, snaps, as_of, cutoff_date) ==
    LET u == upsert_snapshots(tbl, snaps, as_of)
        p == Promote(u)
        e == Expire(p, cutoff_date)
        v == Revive(e, as_of)
    IN  [upsert |-> u, promote |-> p, expire |-> e, revive |-> v]

\* mutant of LifeAutocommit: every statement is committed as it completes
AutocommitOn == TRUE

\* pymysql.connect(..., autocommit=False)
LifeAutocommit == FALSE

LifeInit ==
    /\ registry = {}
    /\ clock = 1
    /\ life_runs = 0
    /\ life_outcome = "none"
    /\ ft_master = {}
    /\ yf_master = {}
    /\ sa_master = {}
    /\ life_missing = {}
    /\ source_rows = <<>>
    /\ snapshots = <<>>
    /\ today = 0
    /\ inactive_days = 0
    /\ cutoff = 0
    /\ life_txn = {}
    /\ life_done = 0
    /\ promoted_count = 0
    /\ inactivated_count = 0
    /\ reactivated_count = 0
    /\ life_pre = {}
    /\ after_upsert = {}
    /\ after_promote = {}
    /\ after_expire = {}
    /\ life_expired = {}
    /\ life_expired_pre = {}

\* the tickers of a list of snapshots
SnapTickers(snaps) == {snaps[i].ticker : i \in 1..Len(snaps)}

\* history: the tickers the expire UPDATE of this run moved to inactive while
\* the run's snapshot did not hold them, with the earlier ones still unlisted
ExpiredAbsent(before, snaps, tbl, cutoff_date) ==
    (before \cup {r.ticker : r \in {q \in tbl : ExpireGuard(q, cutoff_date)}}) \ SnapTickers(snaps)

\* the table the transaction has written when the statement after the first
\* `done` raises (1 upsert, 2 promote, 3 expire, 4 revive and then the
\* summary SELECT or the commit); the executemany of the upsert raises after
\* j snapshots
TxnAt(run, snaps, as_of, done, j) ==
    CASE done = 0 -> upsert_snapshots(registry, SubSeq(snaps, 1, j), as_of)
      [] done = 1 -> run.upsert
      [] done = 2 -> run.promote
      [] done = 3 -> run.expire
      [] OTHER -> run.revive

\* what a run that committed leaves to observe until its process ends
lifeSeen == <<ft_master, yf_master, sa_master, life_missing, source_rows, snapshots, today,
              inactive_days, cutoff, promoted_count, inactivated_count,
              reactivated_count, after_upsert, after_promote, after_expire,
              life_expired_pre>>

\* merge_security_master(inactive_days): every statement succeeds, conn.commit()
LifeRun ==
    /\ job = "lifecycle" /\ life_outcome = "none" /\ life_runs < MaxLifeRuns
    /\ \E now1 \in {clock, clock + 1} \cap (1..MaxDay), days \in -1..MaxInactiveDays,
          ft \in FtMasterTables, yf \in YfMasterTables, sa \in SaMasterTables :
         \E missing \in {m \in MissingSets : TablesAgree(ft, yf, sa, m)} :
         \E now2 \in {now1, now1 + 1} \cap (1..MaxDay),
            ftq \in QueryResult(FtSource, ft, missing),
            yfq \in QueryResult(YfSource, yf, missing),
            saq \in QueryResult(SaSource, sa, missing) :
            \E snaps \in {build_snapshot(load_latest_source_rows(ftq, yfq, saq), now1)} :
            \E run \in {RunStatements(registry, snaps, now1, CutoffOf(now2, days))} :
                /\ clock' = now2
                /\ life_missing' = missing
                /\ ft_master' = ft
                /\ yf_master' = yf
                /\ sa_master' = sa
                /\ source_rows' = load_latest_source_rows(ftq, yfq, saq)
                /\ snapshots' = snaps
                /\ today' = now1
                /\ inactive_days' = days
                /\ cutoff' = CutoffOf(now2, days)
                /\ after_upsert' = run.upsert
                /\ after_promote' = run.promote
                /\ after_expire' = run.expire
                /\ life_txn' = run.revive
                /\ promoted_count' = PromoteCount(run.upsert)
                /\ inactivated_count' = ExpireCount(run.promote, CutoffOf(now2, days))
                /\ reactivated_count' = ReviveCount(run.expire, now1)
                /\ registry' = run.revive
                /\ life_expired' = ExpiredAbsent(life_expired, snaps, run.promote,
                                                 CutoffOf(now2, days))
    /\ life_expired_pre' = life_expired
    /\ life_pre' = registry
    /\ life_done' = 4
    /\ life_runs' = life_runs + 1
    /\ life_outcome' = "committed"
    /\ UNCHANGED notLife

\* merge_security_master(inactive_days): a statement raises;
\* except: conn.rollback(); raise.  Of the failed run only the discarded
\* writes stay to observe.
LifeRunRaise ==
    /\ job = "lifecycle" /\ life_outcome = "none" /\ life_runs < MaxLifeRuns
    /\ \E now1 \in {clock, clock + 1} \cap (1..MaxDay), days \in -1..MaxInactiveDays,
          ft \in FtMasterTables, yf \in YfMasterTables, sa \in SaMasterTables :
         \E missing \in {m \in MissingSets : TablesAgree(ft, yf, sa, m)} :
         \E now2 \in {now1, now1 + 1} \cap (1..MaxDay),
            ftq \in QueryResult(FtSource, ft, missing),
            yfq \in QueryResult(YfSource, yf, missing),
            saq \in QueryResult(SaSource, sa, missing),
            done \in 0..4 :
            \E snaps \in {build_snapshot(load_latest_source_rows(ftq, yfq, saq), now1)} :
            \E run \in {RunStatements(registry, snaps, now1, CutoffOf(now2, days))} :
                \E j \in 0..Len(snaps) :
                   /\ done = 0 \/ j = 0
                   /\ clock' = now2
                   /\ life_txn' = TxnAt(run, snaps, now1, done, j)
                   /\ life_done' = done
                   /\ registry' = IF LifeAutocommit THEN life_txn' ELSE registry
    /\ life_pre' = registry
    /\ life_runs' = life_runs + 1
    /\ life_outcome' = "failed"
    /\ UNCHANGED <<lifeSeen, life_expired, notLife>>

\* finally: conn.close(); the process ends
LifeExit ==
    /\ job = "lifecycle" /\ life_outcome \in {"committed", "failed"}
    /\ life_runs < MaxLifeRuns
    /\ life_outcome' = "none"
    /\ ft_master' = {}
    /\ yf_master' = {}
    /\ sa_master' = {}
    /\ life_missing' = {}
    /\ source_rows' = <<>>
    /\ snapshots' = <<>>
    /\ today' = 0
    /\ inactive_days' = 0
    /\ cutoff' = 0
    /\ life_txn' = {}
    /\ life_done' = 0
    /\ promoted_count' = 0
    /\ inactivated_count' = 0
    /\ reactivated_count' = 0
    /\ life_pre' = {}
    /\ after_upsert' = {}
    /\ after_promote' = {}
    /\ after_expire' = {}
    /\ life_expired_pre' = {}
    /\ UNCHANGED <<registry, clock, life_runs, life_expired, notLife>>

LifeNext ==
    \/ LifeRun
    \/ LifeRunRaise
    \/ LifeExit

-----------------------------------------------------------------------------
(* NAV data mart: tables (src/maintenance/build_nav_data_mart.py) *)
(* A DECIMAL is held as an integer number of hundredths: nav_price 50.00   *)
(* is 5000, fx_rate 1.25 is 125, unit_factor 0.01 is 1 and 1 is 100.  A     *)
(* DATE is a day number.  NULL in a numeric or date column is NullNum.     *)

NullNum == 0 - 1000

GBX == <<"G", "B", "X">>
GBP == <<"G", "B", "P">>
ZAX == <<"Z", "A", "X">>
ZAR == <<"Z", "A", "R">>
CNH == <<"C", "N", "H">>
CNY == <<"C", "N", "Y">>
ILA == <<"I", "L", "A">>
ILS == <<"I", "L", "S">>
USD == <<"U", "S", "D">>
EUR == <<"E", "U", "R">>

\* rows stg_ft_daily_nav may hold
FtNavUniverse ==
    { [id |-> 1, ft_ticker |-> <<"A", ":", "X">>, ticker |-> <<"A">>,
       name |-> <<"A", "l", "f", "a">>, ticker_type |-> <<"E", "T", "F">>,
       nav_price |-> 5000, nav_currency |-> <<"g", "b", "x">>, nav_as_of |-> 2,
       date_scraper |-> 3, url |-> <<"u", "1">>],
      [id |-> 2, ft_ticker |-> <<"A", ":", "Y">>, ticker |-> <<"A">>,
       name |-> <<"A", "l", "f", "a">>, ticker_type |-> <<"E", "T", "F">>,
       nav_price |-> 100, nav_currency |-> <<"u", "s", "d">>, nav_as_of |-> 2,
       date_scraper |-> 3, url |-> None],
      [id |-> 3, ft_ticker |-> <<"A", ":", "X">>, ticker |-> <<"A">>,
       name |-> <<"A", "l", "f", "a">>, ticker_type |-> <<"E", "T", "F">>,
       nav_price |-> NullNum, nav_currency |-> <<"G", "b", "x">>, nav_as_of |-> 1,
       date_scraper |-> 3, url |-> <<"u", "1">>] }

\* rows stg_yf_daily_nav may hold
YfNavUniverse ==
    { [id |-> 1, ticker |-> <<"B">>, asset_type |-> <<"E", "T", "F">>,
       nav_price |-> 200, currency |-> EUR, as_of_date |-> 2, scrape_date |-> 3],
      [id |-> 2, ticker |-> <<"B">>, asset_type |-> <<"E", "T", "F">>,
       nav_price |-> 300, currency |-> <<"z", "a", "x">>, as_of_date |-> 1, scrape_date |-> 3],
      [id |-> 3, ticker |-> <<"B">>, asset_type |-> <<"E", "T", "F">>,
       nav_price |-> 700, currency |-> None, as_of_date |-> NullNum, scrape_date |-> 3] }

\* rows stg_sa_daily_nav may hold
SaNavUniverse ==
    { [id |-> 1, ticker |-> <<"B">>, asset_type |-> <<"F", "u", "n", "d">>,
       nav_price |-> 400, currency |-> CNH, as_of_date |-> 3, scrape_date |-> 3],
      [id |-> 2, ticker |-> <<"B">>, asset_type |-> <<"F", "u", "n", "d">>,
       nav_price |-> 900, currency |-> <<"I", "l", "a">>, as_of_date |-> 2, scrape_date |-> 3] }

\* rows stg_yf_master_ticker may hold, the columns the views read
NavYfMasterUniverse ==
    { [ticker |-> <<"B">>, name |-> <<"B", "e", "t", "a">>, url |-> <<"u", "2">>],
      [ticker |-> <<"b", " ">>, name |-> <<"b", "e", "t", "a">>, url |-> None] }

\* rows stg_sa_master_ticker may hold, the columns the views read
NavSaMasterUniverse ==
    { [ticker |-> <<"b">>, name |-> <<"B", "e", "t", "a">>, url |-> <<"u", "3">>] }

\* rows daily_fx_rates may hold
FxUniverse ==
    { [rate_date |-> 1, from_currency |-> GBP, to_currency |-> USD, fx_rate |-> 125],
      [rate_date |-> 3, from_currency |-> <<"g", "b", "p">>, to_currency |-> USD, fx_rate |-> 130],
      [rate_date |-> 2, from_currency |-> GBP, to_currency |-> EUR, fx_rate |-> 115],
      [rate_date |-> 1, from_currency |-> EUR, to_currency |-> <<"u", "s", "d">>, fx_rate |-> 110],
      [rate_date |-> 3, from_currency |-> EUR, to_currency |-> USD, fx_rate |-> 120],
      [rate_date |-> 1, from_currency |-> ZAR, to_currency |-> USD, fx_rate |-> 6] }

\* SQL `a = b` is true (neither side NULL, equal under utf8mb4_unicode_ci)
SqlEqText(a, b) == a # None /\ b # None /\ SqlEq(a, b)

\* UNIQUE KEY uq_ft_nav_ft_ticker_asof (ft_ticker, nav_as_of); NULLs never collide
FtNavKeyOk(tbl) ==
    \A r, q \in tbl :
        (SqlEq(r.ft_ticker, q.ft_ticker) /\ r.nav_as_of # NullNum
            /\ r.nav_as_of = q.nav_as_of) => r = q

\* UNIQUE KEY uq_yf_nav_ticker_asof / uq_sa_nav_ticker_asof (ticker, as_of_date)
NavKeyOk(tbl) ==
    \A r, q \in tbl :
        (SqlEq(r.ticker, q.ticker) /\ r.as_of_date # NullNum
            /\ r.as_of_date = q.as_of_date) => r = q

\* a master table without its unique key
NavMasterNoKey(tbl) == TRUE

\* UNIQUE KEY uq_yf_master_ticker / uq_sa_master_ticker (ticker)
NavMasterKeyOk(tbl) == \A r, q \in tbl : SqlEq(r.ticker, q.ticker) => r = q

\* UNIQUE KEY uq_fx_rate_date_pair (rate_date, from_currency, to_currency)
FxKeyOk(tbl) ==
    \A r, q \in tbl :
        (r.rate_date = q.rate_date /\ SqlEq(r.from_currency, q.from_currency)
            /\ SqlEq(r.to_currency, q.to_currency)) => r = q

-----------------------------------------------------------------------------
(* NAV data mart: the views.  A view row is identified by the table rows   *)
(* it was joined from, so that a view is a bag of rows as in SQL.          *)

\* SQL UPPER()
SqlUpper(v) == IF v = None THEN None ELSE Upper(v)

\* the right-hand side of a LEFT JOIN that matched no master row
NoMaster == [ticker |-> None, name |-> None, url |-> None]

\* the right-hand side of a LEFT JOIN that matched no rate
NoFx == [rate_date |-> NullNum, from_currency |-> None, to_currency |-> None,
         fx_rate |-> NullNum]

\* table LEFT JOIN master m ON m.ticker = table.ticker
LeftJoinMaster(source_name, tbl, master) ==
    UNION { LET hit == {m \in master : SqlEqText(m.ticker, r.ticker)}
            IN  IF hit = {} THEN {[source_name |-> source_name, nav |-> r, m |-> NoMaster]}
                ELSE {[source_name |-> source_name, nav |-> r, m |-> m] : m \in hit}
            : r \in tbl }

\* vw_nav_unified, the rows as joined
vw_nav_unified ==
    {[source_name |-> FtSource, nav |-> r, m |-> NoMaster] : r \in ft_nav}
        \cup LeftJoinMaster(YfSource, yf_nav, nav_yf_master)
        \cup LeftJoinMaster(SaSource, sa_nav, nav_sa_master)

\* vw_nav_unified, the columns of one row
UnifiedRow(j) ==
    IF j.source_name = FtSource
    THEN [source_name |-> j.source_name, source_row_id |-> j.nav.id,
          instrument_ref |-> j.nav.ft_ticker, ticker |-> j.nav.ticker,
          name |-> j.nav.name, asset_type |-> j.nav.ticker_type,
          nav_price |-> j.nav.nav_price, nav_currency |-> SqlUpper(j.nav.nav_currency),
          as_of_date |-> j.nav.nav_as_of, date_scraper |-> j.nav.date_scraper,
          url |-> j.nav.url]
    ELSE [source_name |-> j.source_name, source_row_id |-> j.nav.id,
          instrument_ref |-> None, ticker |-> j.nav.ticker,
          name |-> j.m.name, asset_type |-> j.nav.asset_type,
          nav_price |-> j.nav.nav_price, nav_currency |-> SqlUpper(j.nav.currency),
          as_of_date |-> j.nav.as_of_date, date_scraper |-> j.nav.scrape_date,
          url |-> j.m.url]

\* CASE UPPER(u.nav_currency) WHEN 'GBX' THEN 'GBP' ... END AS fx_from_currency
fx_from_currency(nav_currency) ==
    LET c == SqlUpper(nav_currency)
    IN  IF SqlEqText(c, GBX) THEN GBP
        ELSE IF SqlEqText(c, ZAX) THEN ZAR
        ELSE IF SqlEqText(c, CNH) THEN CNY
        ELSE IF SqlEqText(c, ILA) THEN ILS
        ELSE c

\* a unit factor that knows pence only
unit_factor_pence(nav_currency) ==
    IF SqlEqText(SqlUpper(nav_currency), GBX) THEN 1 ELSE 100

\* CASE UPPER(u.nav_currency) WHEN 'GBX' THEN 0.01 ... END AS unit_factor, in hundredths
unit_factor(nav_currency) ==
    LET c == SqlUpper(nav_currency)
    IN  IF SqlEqText(c, GBX) THEN 1
        ELSE IF SqlEqText(c, ZAX) THEN 1
        ELSE 100

\* a join that takes the latest rate whatever its date
RateDateAny(rate_date, as_of_date) == as_of_date # NullNum

\* does a rate date pass the subquery's `f2.rate_date <= n.as_of_date`
RateDateOk(rate_date, as_of_date) ==
    as_of_date # NullNum /\ rate_date <= as_of_date

\* the rates the subquery of the join takes its MAX(rate_date) over
RatesUpTo(fx_from, as_of_date) ==
    {f2 \in fx_rates : /\ SqlEqText(f2.from_currency, fx_from)
                       /\ SqlEqText(f2.to_currency, USD)
                       /\ RateDateOk(f2.rate_date, as_of_date)}

\* (SELECT MAX(f2.rate_date) ...), NullNum when no row qualifies
MaxRateDate(fx_from, as_of_date) ==
    LET up == RatesUpTo(fx_from, as_of_date)
    IN  IF up = {} THEN NullNum
        ELSE CHOOSE d \in {f.rate_date : f \in up} : \A f \in up : f.rate_date <= d

\* the ON clause of LEFT JOIN daily_fx_rates fx
FxJoinOn(fx, fx_from, as_of_date) ==
    /\ SqlEqText(fx.from_currency, fx_from)
    /\ SqlEqText(fx.to_currency, USD)
    /\ MaxRateDate(fx_from, as_of_date) # NullNum
    /\ fx.rate_date = MaxRateDate(fx_from, as_of_date)

\* a join that drops the rows without a rate
InnerJoinFx(j, hit) == {[u |-> j, fx |-> fx] : fx \in hit}

\* LEFT JOIN: a row of n with the rates that matched it, or with NULLs
LeftJoinFx(j, hit) ==
    IF hit = {} THEN {[u |-> j, fx |-> NoFx]}
    ELSE {[u |-> j, fx |-> fx] : fx \in hit}

\* vw_nav_usd, the rows as joined
vw_nav_usd ==
    UNION { LET n == UnifiedRow(j)
                hit == {fx \in fx_rates :
                            FxJoinOn(fx, fx_from_currency(n.nav_currency), n.as_of_date)}
            IN  LeftJoinFx(j, hit)
            : j \in vw_nav_unified }

\* nav_price_usd, in millionths
nav_price_usd(nav_price, from, factor, fx_rate) ==
    IF SqlEqText(from, USD)
    THEN (IF nav_price = NullNum THEN NullNum ELSE nav_price * factor * 100)
    ELSE IF fx_rate = NullNum THEN NullNum
    ELSE IF nav_price = NullNum THEN NullNum
    ELSE nav_price * factor * fx_rate

\* a staleness that counts from the NAV date to the rate date
fx_staleness_reversed(from, as_of_date, rate_date) ==
    IF SqlEqText(from, USD) THEN 0
    ELSE IF rate_date = NullNum THEN NullNum
    ELSE IF as_of_date = NullNum THEN NullNum
    ELSE rate_date - as_of_date

\* fx_staleness_days
fx_staleness_days(from, as_of_date, rate_date) ==
    IF SqlEqText(from, USD) THEN 0
    ELSE IF rate_date = NullNum THEN NullNum
    ELSE IF as_of_date = NullNum THEN NullNum
    ELSE as_of_date - rate_date

\* vw_nav_usd, the columns of one row
UsdRow(k) ==
    LET n == UnifiedRow(k.u)
        from == fx_from_currency(n.nav_currency)
        factor == unit_factor(n.nav_currency)
    IN  [source_name |-> n.source_name, source_row_id |-> n.source_row_id,
         instrument_ref |-> n.instrument_ref, ticker |-> n.ticker, name |-> n.name,
         asset_type |-> n.asset_type, nav_price |-> n.nav_price,
         nav_currency |-> n.nav_currency, fx_from_currency |-> from,
         unit_factor |-> factor, as_of_date |-> n.as_of_date,
         fx_rate_date |-> k.fx.rate_date, fx_rate_to_usd |-> k.fx.fx_rate,
         nav_price_usd |-> nav_price_usd(n.nav_price, from, factor, k.fx.fx_rate),
         fx_staleness_days |-> fx_staleness_days(from, n.as_of_date, k.fx.rate_date),
         date_scraper |-> n.date_scraper, url |-> n.url]

-----------------------------------------------------------------------------
(* NAV data mart: actions *)

NavInit ==
    /\ ft_nav = {}
    /\ yf_nav = {}
    /\ sa_nav = {}
    /\ nav_yf_master = {}
    /\ nav_sa_master = {}
    /\ fx_rates = {}
    /\ nav_views = "none"

\* load_daily_nav_to_db: a row reaches stg_ft_daily_nav
LoadFtNav ==
    /\ job = "nav"
    /\ \E r \in FtNavUniverse \ ft_nav :
        /\ Cardinality(ft_nav) < MaxFtNav
        /\ FtNavKeyOk(ft_nav \cup {r})
        /\ ft_nav' = ft_nav \cup {r}
    /\ UNCHANGED <<yf_nav, sa_nav, nav_yf_master, nav_sa_master, fx_rates, nav_views, notNav>>

\* load_daily_nav_to_db: a row reaches stg_yf_daily_nav
LoadYfNav ==
    /\ job = "nav"
    /\ \E r \in YfNavUniverse \ yf_nav :
        /\ Cardinality(yf_nav) < MaxYfNav
        /\ NavKeyOk(yf_nav \cup {r})
        /\ yf_nav' = yf_nav \cup {r}
    /\ UNCHANGED <<ft_nav, sa_nav, nav_yf_master, nav_sa_master, fx_rates, nav_views, notNav>>

\* load_daily_nav_to_db: a row reaches stg_sa_daily_nav
LoadSaNav ==
    /\ job = "nav"
    /\ \E r \in SaNavUniverse \ sa_nav :
        /\ Cardinality(sa_nav) < MaxSaNav
        /\ NavKeyOk(sa_nav \cup {r})
        /\ sa_nav' = sa_nav \cup {r}
    /\ UNCHANGED <<ft_nav, yf_nav, nav_yf_master, nav_sa_master, fx_rates, nav_views, notNav>>

\* load_master_lists_to_db: a row reaches stg_yf_master_ticker
LoadNavYfMaster ==
    /\ job = "nav"
    /\ \E r \in NavYfMasterUniverse \ nav_yf_master :
        /\ NavMasterKeyOk(nav_yf_master \cup {r})
        /\ nav_yf_master' = nav_yf_master \cup {r}
    /\ UNCHANGED <<ft_nav, yf_nav, sa_nav, nav_sa_master, fx_rates, nav_views, notNav>>

\* load_master_lists_to_db: a row reaches stg_sa_master_ticker
LoadNavSaMaster ==
    /\ job = "nav"
    /\ \E r \in NavSaMasterUniverse \ nav_sa_master :
        /\ NavMasterKeyOk(nav_sa_master \cup {r})
        /\ nav_sa_master' = nav_sa_master \cup {r}
    /\ UNCHANGED <<ft_nav, yf_nav, sa_nav, nav_yf_master, fx_rates, nav_views, notNav>>

\* fetch_daily_fx_rates: a rate reaches daily_fx_rates
LoadFxRate ==
    /\ job = "nav"
    /\ \E r \in FxUniverse \ fx_rates :
        /\ Cardinality(fx_rates) < MaxFxRates
        /\ FxKeyOk(fx_rates \cup {r})
        /\ fx_rates' = fx_rates \cup {r}
    /\ UNCHANGED <<ft_nav, yf_nav, sa_nav, nav_yf_master, nav_sa_master, nav_views, notNav>>

\* build_views: both views are dropped and created
BuildViews ==
    /\ job = "nav"
    /\ nav_views' = "built"
    /\ UNCHANGED <<ft_nav, yf_nav, sa_nav, nav_yf_master, nav_sa_master, fx_rates, notNav>>

\* build_views: a statement raises; DROP VIEW is not undone by the rollback
BuildViewsRaise ==
    /\ job = "nav"
    /\ nav_views' = "failed"
    /\ UNCHANGED <<ft_nav, yf_nav, sa_nav, nav_yf_master, nav_sa_master, fx_rates, notNav>>

NavNext ==
    \/ LoadFtNav
    \/ LoadYfNav
    \/ LoadSaNav
    \/ LoadNavYfMaster
    \/ LoadNavSaMaster
    \/ LoadFxRate
    \/ BuildViews
    \/ BuildViewsRaise

-----------------------------------------------------------------------------
(* Lifecycle merge: load_latest_source_rows and build_snapshot, called on  *)
(* master lists in which several sources list the same ticker              *)

\* rows stg_ft_master_ticker may hold
SnapFtUniverse ==
    { [ft_ticker |-> <<"T", ":", "X">>, ticker |-> <<"t">>,
       name |-> <<"N", "/", "A">>, ticker_type |-> <<"E", "T", "F">>,
       url |-> None, date_scraper |-> 3],
      [ft_ticker |-> <<"V", ":", "X">>, ticker |-> <<"V">>,
       name |-> <<"V", "e", "e">>, ticker_type |-> <<"E", "T", "F">>,
       url |-> <<"u", "v">>, date_scraper |-> 2] }

\* rows stg_yf_master_ticker may hold
SnapYfUniverse ==
    { [ticker |-> <<"T">>, name |-> <<"Y", "f">>, ticker_type |-> <<"n", "a", "n">>,
       url |-> <<"N", "U", "L", "L">>, date_scraper |-> 1],
      [ticker |-> <<"U">>, name |-> <<"Y", "u">>, ticker_type |-> <<"F", "u", "n", "d">>,
       url |-> <<"u", "y">>, date_scraper |-> 1] }

\* rows stg_sa_master_ticker may hold
SnapSaUniverse ==
    { [ticker |-> <<"T", " ">>, name |-> <<"S", "a">>, ticker_type |-> <<"-", "-">>,
       url |-> <<"u", "s">>, date_scraper |-> 2],
      [ticker |-> <<"U">>, name |-> <<>>, ticker_type |-> <<>>,
       url |-> None, date_scraper |-> 1] }

SnapFtTables == {t \in SUBSET SnapFtUniverse : FtMasterKeyOk(t)}

SnapYfTables == {t \in SUBSET SnapYfUniverse : YfMasterKeyOk(t)}

SnapSaTables == {t \in SUBSET SnapSaUniverse : SaMasterKeyOk(t)}

SnapInit ==
    /\ snap_pc = "idle"
    /\ snap_ft = {}
    /\ snap_yf = {}
    /\ snap_sa = {}
    /\ snap_missing = {}
    /\ snap_rows = <<>>
    /\ snap_out = <<>>

\* source_rows = load_latest_source_rows(cur)
SnapLoad ==
    /\ job = "snapshot" /\ snap_pc = "idle"
    /\ \E ft \in SnapFtTables, yf \in SnapYfTables, sa \in SnapSaTables :
         \E missing \in {m \in MissingSets : TablesAgree(ft, yf, sa, m)} :
         \E ftq \in QueryResult(FtSource, ft, missing),
            yfq \in QueryResult(YfSource, yf, missing),
            saq \in QueryResult(SaSource, sa, missing) :
            /\ snap_ft' = ft
            /\ snap_yf' = yf
            /\ snap_sa' = sa
            /\ snap_missing' = missing
            /\ snap_rows' = load_latest_source_rows(ftq, yfq, saq)
    /\ snap_pc' = "loaded"
    /\ UNCHANGED <<snap_out, notSnap>>

\* snapshots = build_snapshot(source_rows, as_of=today)
SnapBuild ==
    /\ job = "snapshot" /\ snap_pc = "loaded"
    /\ \E as_of \in 1..MaxDay : snap_out' = build_snapshot(snap_rows, as_of)
    /\ snap_pc' = "built"
    /\ UNCHANGED <<snap_ft, snap_yf, snap_sa, snap_missing, snap_rows, notSnap>>

\* the lists go out of scope
SnapReturn ==
    /\ job = "snapshot" /\ snap_pc = "built"
    /\ snap_pc' = "idle"
    /\ snap_ft' = {}
    /\ snap_yf' = {}
    /\ snap_sa' = {}
    /\ snap_missing' = {}
    /\ snap_rows' = <<>>
    /\ snap_out' = <<>>
    /\ UNCHANGED notSnap

SnapNext ==
    \/ SnapLoad
    \/ SnapBuild
    \/ SnapReturn

-----------------------------------------------------------------------------
(* ISIN merge: build_ticker_to_isin_map, called on candidate lists in which *)
(* tickers repeat, differ in case or are empty                              *)

IsinC == <<"G", "B", "0", "0", "B", "0", "3", "M", "L", "X", "2", "9">>

\* candidates load_ft_candidates can return
MapFtUniverse ==
    { Candidate(IsinA, <<"a", "b", "c">>, <<"A", "l", "f", "a">>, <<"E", "T", "F">>,
                FtSource, FtPriority, None, <<"f", "1">>, None),
      Candidate(IsinB, <<"A", "B", "C">>, <<"B", "e", "t", "a">>, <<"E", "T", "F">>,
                FtSource, FtPriority, None, <<"f", "2">>, None),
      Candidate(IsinC, <<>>, IsinC, <<"E", "T", "F">>,
                FtSource, FtPriority, None, <<"f", "3">>, None) }

\* candidates load_sa_candidates can return
MapSaUniverse ==
    { Candidate(IsinC, <<"A", "b", "c">>, <<"S", "a", "1">>, <<"E", "T", "F">>,
                SaSource, SaPriority, None, None, None),
      Candidate(IsinA, <<"x", "y", "z">>, <<"S", "a", "2">>, <<"E", "T", "F">>,
                SaSource, SaPriority, None, None, None),
      Candidate(IsinB, <<"X", "y", "z">>, <<"S", "a", "3">>, <<"E", "T", "F">>,
                SaSource, SaPriority, None, None, None) }

\* the lists a loader can return: each ISIN once, in any order
CandidateLists(universe, n) ==
    UNION {Orderings(c) : c \in {x \in SUBSET universe : Cardinality(x) <= n}}

MapInit ==
    /\ map_pc = "idle"
    /\ map_ft = <<>>
    /\ map_sa = <<>>
    /\ map_out = EmptyDict

\* ticker_to_isin = build_ticker_to_isin_map(ft_rows, sa_rows)
MapBuild ==
    /\ job = "tickermap" /\ map_pc = "idle"
    /\ \E ft \in CandidateLists(MapFtUniverse, MaxMapFt),
          sa \in CandidateLists(MapSaUniverse, MaxMapSa) :
        /\ map_ft' = ft
        /\ map_sa' = sa
        /\ map_out' = build_ticker_to_isin_map(ft, sa)
    /\ map_pc' = "built"
    /\ UNCHANGED notMap

\* the lists and the dict go out of scope
MapReturn ==
    /\ job = "tickermap" /\ map_pc = "built"
    /\ map_pc' = "idle"
    /\ map_ft' = <<>>
    /\ map_sa' = <<>>
    /\ map_out' = EmptyDict
    /\ UNCHANGED notMap

MapNext ==
    \/ MapBuild
    \/ MapReturn

-----------------------------------------------------------------------------
(* ISIN merge: load_ft_candidates and load_sa_candidates, called on tables *)
(* in which several rows hold the same ISIN                                *)

\* rows stg_sa_static_info may hold
LdSaUniverse ==
    { [ticker |-> <<"x", "y", "z">>, isin_number |-> IsinALow, name |-> <<"S", "a", "1">>,
       asset_type |-> <<"E", "T", "F">>, updated_at |-> 1],
      [ticker |-> <<"a", "b", "c">>, isin_number |-> IsinARaw, name |-> <<"S", "a", "2">>,
       asset_type |-> None, updated_at |-> 2],
      [ticker |-> <<"s", "s", "s">>, isin_number |-> IsinShort, name |-> <<"S", "a", "3">>,
       asset_type |-> <<"E", "T", "F">>, updated_at |-> 3],
      [ticker |-> <<"b", "b", "b">>, isin_number |-> IsinB, name |-> None,
       asset_type |-> <<"E", "T", "F">>, updated_at |-> 2] }

LdInit ==
    /\ ld_pc = "idle"
    /\ ld_ft_static = {}
    /\ ld_sa_static = {}
    /\ ld_ft_rows = <<>>
    /\ ld_sa_rows = <<>>

\* ft_rows = load_ft_candidates(cur); sa_rows = load_sa_candidates(cur)
LdLoad ==
    /\ job = "candidates" /\ ld_pc = "idle"
    /\ \E ft \in {t \in SUBSET FtStaticUniverse : FtStaticKeyOk(t)},
          sa \in {t \in SUBSET LdSaUniverse : SaStaticKeyOk(t)} :
         \E ftq \in FtFetch(ft), saq \in SaFetch(sa) :
            /\ ld_ft_static' = ft
            /\ ld_sa_static' = sa
            /\ ld_ft_rows' = load_ft_candidates(ftq)
            /\ ld_sa_rows' = load_sa_candidates(saq)
    /\ ld_pc' = "loaded"
    /\ UNCHANGED notLd

\* the lists go out of scope
LdReturn ==
    /\ job = "candidates" /\ ld_pc = "loaded"
    /\ ld_pc' = "idle"
    /\ ld_ft_static' = {}
    /\ ld_sa_static' = {}
    /\ ld_ft_rows' = <<>>
    /\ ld_sa_rows' = <<>>
    /\ UNCHANGED notLd

LdNext ==
    \/ LdLoad
    \/ LdReturn

-----------------------------------------------------------------------------
(* Serving view vw_fund_master_isin_ready: the latest_nav common table     *)
(* expression (src/maintenance/publish_ready_isin_serving.py)              *)

\* rows stg_ft_daily_nav may hold, the columns latest_nav reads and the key;
\* A:X and A:Y are two listings of the ticker A
LnFtUniverse ==
    { [ft_ticker |-> <<"A", ":", "X">>, ticker |-> <<"A">>, nav_as_of |-> 2,
       nav_price |-> 5000, nav_currency |-> <<"g", "b", "x">>],
      [ft_ticker |-> <<"A", ":", "Y">>, ticker |-> <<"A">>, nav_as_of |-> 2,
       nav_price |-> 100, nav_currency |-> <<"u", "s", "d">>],
      [ft_ticker |-> <<"A", ":", "X">>, ticker |-> <<"A">>, nav_as_of |-> 1,
       nav_price |-> 4000, nav_currency |-> <<"g", "b", "x">>] }

\* rows stg_yf_daily_nav may hold
LnYfUniverse ==
    { [ticker |-> <<"a">>, as_of_date |-> 2, nav_price |-> 200, currency |-> EUR],
      [ticker |-> <<"A">>, as_of_date |-> 3, nav_price |-> 300, currency |-> None],
      [ticker |-> <<"B">>, as_of_date |-> NullNum, nav_price |-> 700, currency |-> USD] }

\* rows stg_sa_daily_nav may hold
LnSaUniverse ==
    { [ticker |-> <<"A">>, as_of_date |-> 2, nav_price |-> 400, currency |-> CNH],
      [ticker |-> <<"B">>, as_of_date |-> 1, nav_price |-> 900, currency |-> USD] }

\* one row of the UNION ALL
NavRow(ticker, nav_source, as_of_date, nav_price, nav_currency) ==
    [ticker_key |-> SqlUpper(ticker), ticker |-> ticker, nav_source |-> nav_source,
     as_of_date |-> as_of_date, nav_price |-> nav_price, nav_currency |-> nav_currency]

\* the derived table v: the three SELECTs under UNION ALL
UnionNav(ft, yf, sa) ==
    {NavRow(r.ticker, FtSource, r.nav_as_of, r.nav_price, SqlUpper(r.nav_currency)) : r \in ft}
    \cup {NavRow(r.ticker, YfSource, r.as_of_date, r.nav_price, SqlUpper(r.currency)) : r \in yf}
    \cup {NavRow(r.ticker, SaSource, r.as_of_date, r.nav_price, SqlUpper(r.currency)) : r \in sa}

\* CASE v.nav_source WHEN 'Financial Times' THEN 1 ... ELSE 9 END
NavSourceRank(nav_source) ==
    CASE nav_source = FtSource -> 1
      [] nav_source = YfSource -> 2
      [] nav_source = SaSource -> 3
      [] OTHER -> 9

\* ORDER BY v.as_of_date DESC, CASE ... END: a sorts strictly before b
\* (a NULL date sorts last under DESC)
SortsBefore(a, b) ==
    \/ a.as_of_date > b.as_of_date
    \/ a.as_of_date = b.as_of_date /\ NavSourceRank(a.nav_source) < NavSourceRank(b.nav_source)

\* PARTITION BY UPPER(v.ticker): the rows of one partition
Partition(v, key) == {r \in v : SqlEq(r.ticker_key, key)}

\* the rows ROW_NUMBER() may number 1 in a partition
FirstRows(v, key) == {r \in Partition(v, key) : \A q \in Partition(v, key) : ~SortsBefore(q, r)}

\* the results WHERE x.rn = 1 may give: one first row of every partition
LatestNavResults(v) ==
    {out \in SUBSET v :
        /\ \A r \in v : Cardinality(out \cap Partition(v, r.ticker_key)) = 1
        /\ \A r \in out : r \in FirstRows(v, r.ticker_key)}

LnInit ==
    /\ ln_pc = "idle"
    /\ ln_ft = {}
    /\ ln_yf = {}
    /\ ln_sa = {}
    /\ latest_nav = {}

\* a SELECT from the view evaluates latest_nav over the three NAV tables
LnSelect ==
    /\ job = "latest_nav" /\ ln_pc = "idle"
    /\ \E ft \in {t \in SUBSET LnFtUniverse : FtNavKeyOk(t)},
          yf \in {t \in SUBSET LnYfUniverse : NavKeyOk(t)},
          sa \in {t \in SUBSET LnSaUniverse : NavKeyOk(t)} :
         \E out \in LatestNavResults(UnionNav(ft, yf, sa)) :
            /\ ln_ft' = ft
            /\ ln_yf' = yf
            /\ ln_sa' = sa
            /\ latest_nav' = out
    /\ ln_pc' = "selected"
    /\ UNCHANGED notLn

\* the result set is closed
LnReturn ==
    /\ job = "latest_nav" /\ ln_pc = "selected"
    /\ ln_pc' = "idle"
    /\ ln_ft' = {}
    /\ ln_yf' = {}
    /\ ln_sa' = {}
    /\ latest_nav' = {}
    /\ UNCHANGED notLn

LnNext ==
    \/ LnSelect
    \/ LnReturn

-----------------------------------------------------------------------------
(* Holdings loader (src/maintenance/load_holdings_to_db.py) and data        *)
(* quality report (src/maintenance/data_quality_report.py) on               *)
(* stg_ft_holdings, a table whose only key is the AUTO_INCREMENT id         *)

\* the tuples load_ft_holdings may return: ticker, allocation_type,
\* holding_name, source, date_scraper (the columns the DELETE and the
\* duplicate key read)
HoldUniverse ==
    { [ticker |-> <<"A">>, allocation_type |-> <<"t", "o", "p">>, holding_name |-> <<"X">>,
       source |-> FtSource, date_scraper |-> 1],
      [ticker |-> <<"A">>, allocation_type |-> <<"t", "o", "p">>, holding_name |-> <<"x">>,
       source |-> FtSource, date_scraper |-> 1],
      [ticker |-> <<"A">>, allocation_type |-> <<"t", "o", "p">>, holding_name |-> <<"X">>,
       source |-> FtSource, date_scraper |-> 2],
      [ticker |-> <<"B">>, allocation_type |-> <<"t", "o", "p">>, holding_name |-> <<"X">>,
       source |-> "FT", date_scraper |-> 2] }

\* the lists of up to n tuples
RECURSIVE HoldLists(_)
HoldLists(n) ==
    IF n = 0 THEN {<<>>}
    ELSE HoldLists(n - 1) \cup {Append(l, r) : l \in {x \in HoldLists(n - 1) : Len(x) = n - 1},
                                               r \in HoldUniverse}

EmptyTable == [v \in HoldUniverse |-> 0]

\* DELETE FROM stg_ft_holdings WHERE date_scraper=%s AND source='Financial Times'
DeleteToday(tbl, day) ==
    [v \in HoldUniverse |->
        IF v.date_scraper = day /\ v.source = FtSource THEN 0 ELSE tbl[v]]

\* executemany(INSERT INTO stg_ft_holdings ...): one new row per tuple
RECURSIVE InsertRows(_, _)
InsertRows(tbl, rows) ==
    IF rows = <<>> THEN tbl
    ELSE InsertRows([tbl EXCEPT ![Head(rows)] = @ + 1], Tail(rows))

\* the statements of write_holdings on stg_ft_holdings
write_holdings(tbl, ft_holdings, day) ==
    InsertRows(DeleteToday(tbl, day), ft_holdings)

\* DATE to text
DateText(d) == <<"d", IF d = 1 THEN "1" ELSE "2">>

\* CONCAT_WS('|', ticker, date_scraper, allocation_type, holding_name); the
\* four columns are NOT NULL
DupKey(v) ==
    v.ticker \o <<"|">> \o DateText(v.date_scraper) \o <<"|">> \o v.allocation_type
             \o <<"|">> \o v.holding_name

\* the sum of f over a finite set
RECURSIVE SumOver(_, _)
SumOver(S, f) ==
    IF S = {} THEN 0
    ELSE LET x == CHOOSE y \in S : TRUE IN f[x] + SumOver(S \ {x}, f)

\* SELECT COUNT(*) FROM stg_ft_holdings
TotalRows(tbl) == SumOver(HoldUniverse, tbl)

\* GROUP BY k: the groups, each the set of values of one key
KeyGroups(tbl) ==
    {{v \in HoldUniverse : tbl[v] > 0 /\ SqlEq(DupKey(v), DupKey(w))} :
        w \in {x \in HoldUniverse : tbl[x] > 0}}

\* COUNT(*) of a group
GroupCount(tbl, g) == SumOver(g, tbl)

\* a count that adds the whole of every repeated group
DupCountWholeGroups(tbl) ==
    LET repeated == {g \in KeyGroups(tbl) : GroupCount(tbl, g) > 1}
    IN  SumOver(repeated, [g \in repeated |-> GroupCount(tbl, g)])

\* SELECT COALESCE(SUM(x.cnt - 1), 0) FROM (... GROUP BY k HAVING COUNT(*) > 1) x
DupCount(tbl) ==
    LET repeated == {g \in KeyGroups(tbl) : GroupCount(tbl, g) > 1}
    IN  SumOver(repeated, [g \in repeated |-> GroupCount(tbl, g) - 1])

NoReport == [known |-> FALSE]

NoCall == [known |-> FALSE]

HoldInit ==
    /\ hold_pc = "idle"
    /\ stg_ft_holdings = EmptyTable
    /\ hold_clock = 1
    /\ hold_calls = 0
    /\ hold_input = <<>>
    /\ hold_today = 0
    /\ hold_prev = NoCall
    /\ dq_report = NoReport

\* write_holdings(ft_holdings, ...): every statement succeeds, conn.commit()
HoldWrite ==
    /\ job = "holdings" /\ hold_pc = "idle" /\ hold_calls < MaxHoldCalls
    /\ \E day \in {hold_clock, hold_clock + 1} \cap (1..MaxHoldDay),
          ft_holdings \in HoldLists(MaxHoldInput) :
         /\ hold_clock' = day
         /\ hold_today' = day
         /\ hold_input' = ft_holdings
         /\ stg_ft_holdings' = write_holdings(stg_ft_holdings, ft_holdings, day)
    /\ hold_calls' = hold_calls + 1
    /\ hold_pc' = "written"
    /\ UNCHANGED <<hold_prev, dq_report, notHold>>

\* write_holdings: a statement raises; except: conn.rollback(); raise
HoldWriteRaise ==
    /\ job = "holdings" /\ hold_pc = "idle" /\ hold_calls < MaxHoldCalls
    /\ \E day \in {hold_clock, hold_clock + 1} \cap (1..MaxHoldDay) : hold_clock' = day
    /\ hold_calls' = hold_calls + 1
    /\ hold_pc' = "failed"
    /\ UNCHANGED <<stg_ft_holdings, hold_input, hold_today, hold_prev, dq_report, notHold>>

\* run_checks(): the three SELECTs of the check of stg_ft_holdings
RunChecks ==
    /\ job = "holdings" /\ hold_pc = "idle"
    /\ dq_report' = [known |-> TRUE,
                     total_rows |-> TotalRows(stg_ft_holdings),
                     dup_rows |-> DupCount(stg_ft_holdings),
                     read |-> stg_ft_holdings]
    /\ hold_pc' = "reported"
    /\ UNCHANGED <<stg_ft_holdings, hold_clock, hold_calls, hold_input, hold_today,
                   hold_prev, notHold>>

\* finally: conn.close(); the process ends
HoldExit ==
    /\ job = "holdings" /\ hold_pc \in {"written", "failed", "reported"}
    /\ hold_prev' = CASE hold_pc = "written" ->
                           [known |-> TRUE, input |-> hold_input, left |-> stg_ft_holdings]
                      [] hold_pc = "failed" -> NoCall
                      [] OTHER -> hold_prev
    /\ hold_pc' = "idle"
    /\ hold_input' = <<>>
    /\ hold_today' = 0
    /\ dq_report' = NoReport
    /\ UNCHANGED <<stg_ft_holdings, hold_clock, hold_calls, notHold>>

HoldNext ==
    \/ HoldWrite
    \/ HoldWriteRaise
    \/ RunChecks
    \/ HoldExit

-----------------------------------------------------------------------------
(* Orchestration: run_data_pipeline (src/maintenance/prefect_pipeline.py) *)

\* the post-processing scripts, in the order of the `if run_...:` statements
POST_STEPS ==
    << "load_master_to_db", "merge_security_master", "load_daily_nav_to_db",
       "load_static_to_db", "load_ft_avg_fund_return_to_db", "merge_isin_master_priority",
       "load_holdings_to_db", "fetch_daily_fx_rates", "build_nav_data_mart",
       "create_ft_compat_views", "create_canonical_views_3src",
       "publish_ready_isin_serving", "fix_ft_data_quality_issues", "data_quality_report" >>

PostIndexes == 1..Len(POST_STEPS)

\* the source pipelines, in the order they are submitted or called
SOURCES == <<"FT", "YF", "SA">>

\* the run_... flags of a call: every step enabled, or every step but one
EnabledSets == {PostIndexes} \cup {PostIndexes \ {i} : i \in PostIndexes}

\* @task(retries=1, ...) when prefect imports; the fallback decorator
\* returns the function unchanged
TaskRetries(prefect_available) == IF prefect_available THEN 1 ELSE 0

\* the exit statuses of a script
ExitCodes == {0, 1}

\* a pipeline that logs a failed script and goes on to the next step
ExitOutcomeTolerant(i, code, attempt, retries) ==
    IF code # 0 /\ attempt < retries
    THEN [pc |-> "post", step |-> i, attempt |-> attempt + 1]
    ELSE [pc |-> "post", step |-> i + 1, attempt |-> 0]

\* run_python_script after subprocess.run returned: returncode 0 completes
\* the task; otherwise RuntimeError, which the task runner answers with a
\* retry while retries are left and which ends the flow when none is
ExitOutcome(i, code, attempt, retries) ==
    IF code = 0 THEN [pc |-> "post", step |-> i + 1, attempt |-> 0]
    ELSE IF attempt < retries THEN [pc |-> "post", step |-> i, attempt |-> attempt + 1]
    ELSE [pc |-> "failed", step |-> i, attempt |-> attempt]

\* no step has exited: -1 stands for no status
NoExits == [i \in PostIndexes |-> -1]

NoSources == [s \in {"FT", "YF", "SA"} |-> "pending"]

PipeInit ==
    /\ pipe_pc = "start"
    /\ pipe_cfg = [enabled |-> {}, parallel_by_source |-> FALSE, prefect |-> FALSE]
    /\ pipe_src = NoSources
    /\ pipe_step = 1
    /\ pipe_attempt = 0
    /\ pipe_running = FALSE
    /\ pipe_started = <<>>
    /\ pipe_exit = NoExits
    /\ pipe_nonzero = 0

pipeRest == <<pipe_step, pipe_attempt, pipe_running, pipe_started, pipe_exit, pipe_nonzero>>

\* run_data_pipeline(...) is called
PipeStart ==
    /\ job = "pipeline" /\ pipe_pc = "start"
    /\ \E enabled \in EnabledSets, parallel \in BOOLEAN, prefect \in BOOLEAN :
          pipe_cfg' = [enabled |-> enabled, parallel_by_source |-> parallel,
                       prefect |-> prefect]
    /\ pipe_pc' = "sources"
    /\ UNCHANGED <<pipe_src, pipeRest, notPipe>>

\* a source pipeline starts: all three are submitted to the executor in
\* parallel mode; otherwise each is called when the one before has returned
SourceStart ==
    /\ job = "pipeline" /\ pipe_pc = "sources"
    /\ \E k \in 1..Len(SOURCES) :
          /\ pipe_src[SOURCES[k]] = "pending"
          /\ pipe_cfg.parallel_by_source
                \/ \A j \in 1..(k - 1) : pipe_src[SOURCES[j]] = "done"
          /\ pipe_src' = [pipe_src EXCEPT ![SOURCES[k]] = "running"]
    /\ UNCHANGED <<pipe_pc, pipe_cfg, pipeRest, notPipe>>

\* a source pipeline returns, or one of its scripts fails for good and it
\* raises
SourceFinish ==
    /\ job = "pipeline" /\ pipe_pc = "sources"
    /\ \E s \in DOMAIN pipe_src, outcome \in {"done", "error"} :
          /\ pipe_src[s] = "running"
          /\ pipe_src' = [pipe_src EXCEPT ![s] = outcome]
    /\ UNCHANGED <<pipe_pc, pipe_cfg, pipeRest, notPipe>>

\* parallel mode: future.result() of each future and the exit of the `with`
\* block, which waits for every worker; sequential mode: the call that
\* raised ends the flow, the third return ends the source phase
SourcesJoin ==
    /\ job = "pipeline" /\ pipe_pc = "sources"
    /\ IF pipe_cfg.parallel_by_source
       THEN /\ \A s \in DOMAIN pipe_src : pipe_src[s] \in {"done", "error"}
            /\ pipe_pc' = IF \E s \in DOMAIN pipe_src : pipe_src[s] = "error"
                          THEN "failed" ELSE "post"
       ELSE \/ /\ \E s \in DOMAIN pipe_src : pipe_src[s] = "error"
               /\ pipe_pc' = "failed"
            \/ /\ \A s \in DOMAIN pipe_src : pipe_src[s] = "done"
               /\ pipe_pc' = "post"
    /\ UNCHANGED <<pipe_cfg, pipe_src, pipeRest, notPipe>>

\* `if run_...:` is false
StepSkip ==
    /\ job = "pipeline" /\ pipe_pc = "post" /\ ~pipe_running
    /\ pipe_step \in PostIndexes /\ pipe_step \notin pipe_cfg.enabled
    /\ pipe_step' = pipe_step + 1
    /\ UNCHANGED <<pipe_pc, pipe_cfg, pipe_src, pipe_attempt, pipe_running, pipe_started,
                   pipe_exit, pipe_nonzero, notPipe>>

\* run_python_script(step): subprocess.run starts the script
StepStart ==
    /\ job = "pipeline" /\ pipe_pc = "post" /\ ~pipe_running
    /\ pipe_step \in PostIndexes /\ pipe_step \in pipe_cfg.enabled
    /\ pipe_running' = TRUE
    /\ pipe_started' = IF pipe_attempt = 0 THEN Append(pipe_started, pipe_step)
                       ELSE pipe_started
    /\ UNCHANGED <<pipe_pc, pipe_cfg, pipe_src, pipe_step, pipe_attempt, pipe_exit,
                   pipe_nonzero, notPipe>>

\* the script exits
StepExit ==
    /\ job = "pipeline" /\ pipe_pc = "post" /\ pipe_running
    /\ \E code \in ExitCodes :
          LET o == ExitOutcome(pipe_step, code, pipe_attempt, TaskRetries(pipe_cfg.prefect))
          IN  /\ pipe_pc' = o.pc
              /\ pipe_step' = o.step
              /\ pipe_attempt' = o.attempt
              /\ pipe_exit' = [pipe_exit EXCEPT ![pipe_step] = code]
              /\ pipe_nonzero' = IF code # 0 /\ pipe_nonzero = 0 THEN pipe_step
                                 ELSE pipe_nonzero
    /\ pipe_running' = FALSE
    /\ UNCHANGED <<pipe_cfg, pipe_src, pipe_started, notPipe>>

\* logger.info("Pipeline finished")
PipeFinish ==
    /\ job = "pipeline" /\ pipe_pc = "post" /\ ~pipe_running
    /\ pipe_step = Len(POST_STEPS) + 1
    /\ pipe_pc' = "finished"
    /\ UNCHANGED <<pipe_cfg, pipe_src, pipeRest, notPipe>>

PipeNext ==
    \/ PipeStart
    \/ SourceStart
    \/ SourceFinish
    \/ SourcesJoin
    \/ StepSkip
    \/ StepStart
    \/ StepExit
    \/ PipeFinish

\* the initial values of the subsystems added after the first five
MoreInit == LdInit /\ LnInit /\ HoldInit /\ PipeInit

-----------------------------------------------------------------------------
(* Specifications *)

Jobs == {"isin", "lifecycle"}

InitIsin == job = "isin" /\ IsinInit /\ LifeInit /\ NavInit /\ SnapInit /\ MapInit /\ MoreInit

InitLife == job = "lifecycle" /\ IsinInit /\ LifeInit /\ NavInit /\ SnapInit /\ MapInit /\ MoreInit

InitNav == job = "nav" /\ IsinInit /\ LifeInit /\ NavInit /\ SnapInit /\ MapInit /\ MoreInit

InitSnap == job = "snapshot" /\ IsinInit /\ LifeInit /\ NavInit /\ SnapInit /\ MapInit /\ MoreInit

InitMap == job = "tickermap" /\ IsinInit /\ LifeInit /\ NavInit /\ SnapInit /\ MapInit /\ MoreInit

InitLd == job = "candidates" /\ IsinInit /\ LifeInit /\ NavInit /\ SnapInit /\ MapInit /\ MoreInit

InitLn == job = "latest_nav" /\ IsinInit /\ LifeInit /\ NavInit /\ SnapInit /\ MapInit /\ MoreInit

InitHold == job = "holdings" /\ IsinInit /\ LifeInit /\ NavInit /\ SnapInit /\ MapInit /\ MoreInit

InitPipe == job = "pipeline" /\ IsinInit /\ LifeInit /\ NavInit /\ SnapInit /\ MapInit /\ MoreInit

Init == job \in Jobs /\ IsinInit /\ LifeInit /\ NavInit /\ SnapInit /\ MapInit /\ MoreInit

Next == IsinNext \/ LifeNext

\* the ISIN merge alone
SpecIsin == InitIsin /\ [][IsinNext]_vars

\* the lifecycle merge alone
SpecLife == InitLife /\ [][LifeNext]_vars

\* load_latest_source_rows and build_snapshot alone
SpecSnap == InitSnap /\ [][SnapNext]_vars

\* build_ticker_to_isin_map alone
SpecMap == InitMap /\ [][MapNext]_vars

\* the NAV data mart alone
SpecNav == InitNav /\ [][NavNext]_vars

\* the holdings loader and the quality report
SpecHold == InitHold /\ [][HoldNext]_vars

\* the orchestration alone
SpecPipe == InitPipe /\ [][PipeNext]_vars

\* latest_nav alone
SpecLn == InitLn /\ [][LnNext]_vars

\* the candidate loaders alone
SpecLd == InitLd /\ [][LdNext]_vars

\* the scheduler runs one of the two scripts
Spec == Init /\ [][Next]_vars

-----------------------------------------------------------------------------
(* Lifecycle merge: properties *)

TickersOf(tbl) == {r.ticker : r \in tbl}

\* the row of a table that has a ticker
RowOf(tbl, t) == CHOOSE r \in tbl : r.ticker = t

\* a text value that is neither NULL nor empty
NonEmpty(v) == v # None /\ v # <<>>

NoTwoRowsPerTicker(tbl) == \A r, q \in tbl : Upper(r.ticker) = Upper(q.ticker) => r = q

\* C5: the registry (committed, or as a run's transaction wrote it) never
\* holds two rows whose tickers are equal once uppercased, and the snapshot a
\* run built has exactly one entry for each distinct trimmed, uppercased,
\* non-empty ticker of the source rows it was built from.
C5_OneRowPerTicker ==
    /\ NoTwoRowsPerTicker(registry)
    /\ NoTwoRowsPerTicker(life_txn)
    /\ life_outcome = "committed" =>
          /\ \A i, j \in 1..Len(snapshots) :
                snapshots[i].ticker = snapshots[j].ticker => i = j
          /\ SnapTickers(snapshots) =
                {Upper(Strip(source_rows[i].ticker)) : i \in 1..Len(source_rows)} \ {<<>>}

\* C5 witness: the source rows hold two spellings of one ticker and a blank
\* ticker, the snapshot has one entry, and the registry already had the ticker
C5_Witness ==
    /\ life_outcome = "committed"
    /\ Len(snapshots) = 1
    /\ snapshots[1].ticker \in TickersOf(life_pre)
    /\ \E i, j \in 1..Len(source_rows) :
          /\ source_rows[i].ticker # source_rows[j].ticker
          /\ Upper(Strip(source_rows[i].ticker)) = Upper(Strip(source_rows[j].ticker))
    /\ \E i \in 1..Len(source_rows) : Strip(source_rows[i].ticker) = <<>>

\* C6: the snapshot upsert leaves status and first_seen of every ticker the
\* registry already had as they were, a ticker it inserts gets status new and
\* first_seen = today, and no ticker that was active or inactive before a run
\* is new after it.
C6_UpsertKeepsStatus ==
    life_outcome = "committed" =>
        /\ \A r \in life_pre :
              \E q \in after_upsert :
                 q.ticker = r.ticker /\ q.status = r.status /\ q.first_seen = r.first_seen
        /\ \A q \in after_upsert :
              q.ticker \notin TickersOf(life_pre) =>
                 /\ q.ticker \in SnapTickers(snapshots)
                 /\ q.status = STATUS_NEW
                 /\ q.first_seen = today
        /\ \A r \in life_pre, q \in registry :
              (q.ticker = r.ticker /\ r.status # STATUS_NEW) => q.status # STATUS_NEW

\* C6 witness: the upsert rewrote the name of a ticker that was active since
\* an earlier day
C6_Witness ==
    /\ life_outcome = "committed"
    /\ \E r \in life_pre :
          /\ r.status = STATUS_ACTIVE
          /\ r.first_seen < today
          /\ r.ticker \in SnapTickers(snapshots)
          /\ RowOf(after_upsert, r.ticker).name # r.name

\* C7: the promote step turns a row into active exactly when the row is new
\* and its ticker and its name are both non-NULL and non-empty, and leaves
\* every other row as it is.
C7_PromoteGuard ==
    life_outcome = "committed" =>
        /\ TickersOf(after_promote) = TickersOf(after_upsert)
        /\ \A r \in after_upsert :
              RowOf(after_promote, r.ticker) =
                 IF r.status = STATUS_NEW /\ NonEmpty(r.ticker) /\ NonEmpty(r.name)
                 THEN [r EXCEPT !.status = STATUS_ACTIVE]
                 ELSE r

\* C7 witness: one new row with a name is promoted in a run in which a row
\* the registry already had as new, with a NULL name, stays new
C7_Witness ==
    /\ life_outcome = "committed"
    /\ \E r \in after_upsert :
          /\ r.status = STATUS_NEW /\ NonEmpty(r.name)
          /\ RowOf(after_promote, r.ticker).status = STATUS_ACTIVE
    /\ \E r \in after_upsert :
          /\ r.status = STATUS_NEW /\ r.name = None
          /\ r.ticker \in TickersOf(life_pre)
          /\ RowOf(after_promote, r.ticker).status = STATUS_NEW

\* the rows the expire UPDATE of the run turned from active to inactive
ExpiredRows == {r \in after_promote :
                   r.status = STATUS_ACTIVE
                   /\ RowOf(after_expire, r.ticker).status = STATUS_INACTIVE}

\* C8 (as claimed): in a run an active row becomes inactive exactly when its
\* last_seen is earlier than today - inactive_days (a row whose last_seen is
\* that day stays active), the expired count is the number of these rows, and
\* a ticker that an earlier run expired while no source listed it, and that
\* no source has listed since, is not among them.
C8_ExpireOnce ==
    life_outcome = "committed" =>
        /\ ExpiredRows = {r \in after_promote :
                             r.status = STATUS_ACTIVE
                             /\ r.last_seen < today - inactive_days}
        /\ inactivated_count = Cardinality(ExpiredRows)
        /\ \A r \in ExpiredRows :
              r.ticker \in life_expired_pre => r.ticker \in SnapTickers(snapshots)

\* C9: an inactive ticker of the registry that is in the run's snapshot has
\* last_seen = today when the transitions are evaluated and is active with
\* last_seen = today when the run commits; an inactive ticker that is not in
\* the snapshot keeps its row unchanged.
C9_UpsertBeforeRevive ==
    life_outcome = "committed" =>
        \A r \in life_pre :
            r.status = STATUS_INACTIVE =>
                IF r.ticker \in SnapTickers(snapshots)
                THEN /\ RowOf(after_upsert, r.ticker).last_seen = today
                     /\ RowOf(after_upsert, r.ticker).status = STATUS_INACTIVE
                     /\ RowOf(registry, r.ticker).status = STATUS_ACTIVE
                     /\ RowOf(registry, r.ticker).last_seen = today
                ELSE r \in registry

\* C9 witness: the run found an inactive ticker in its snapshot
C9_Witness ==
    /\ life_outcome = "committed"
    /\ \E r \in life_pre :
          /\ r.status = STATUS_INACTIVE
          /\ r.ticker \in SnapTickers(snapshots)
          /\ reactivated_count > 0

\* a run that found an inactive ticker missing from its snapshot
C9_StaysInactive ==
    /\ life_outcome = "committed"
    /\ \E r \in life_pre :
          r.status = STATUS_INACTIVE /\ r.ticker \notin SnapTickers(snapshots)

\* C10: when a lifecycle run or an ISIN merge run has failed, the registry,
\* respectively the canonical store, is the table it was when the run
\* started.
C10_AllOrNothing ==
    /\ life_outcome = "failed" => registry = life_pre
    /\ isin_pc = "failed" => store = isin_pre

\* C10 witness: a lifecycle run raised after its upsert and some of its
\* transition updates had written rows
C10_Witness ==
    /\ life_outcome = "failed"
    /\ life_done \in 2..3
    /\ life_txn # life_pre
    /\ registry # {}

\* an ISIN merge run that raised while the store held rows
C10_IsinFailed == isin_pc = "failed" /\ isin_now > 1 /\ store # {}

-----------------------------------------------------------------------------
(* NAV data mart: properties *)

\* the rows of vw_nav_usd with their columns
NavUsdRows == {UsdRow(k) : k \in vw_nav_usd}

\* the rates to USD of a currency dated on or before a day
RatesOnOrBefore(from, day) ==
    {f \in fx_rates : /\ from # None
                      /\ SqlEq(f.from_currency, from)
                      /\ SqlEq(f.to_currency, USD)
                      /\ day # NullNum
                      /\ f.rate_date <= day}

\* C11: every vw_nav_usd row whose fx_from_currency is not USD carries the
\* rate of the daily_fx_rates row to USD, from its fx_from_currency, with the
\* greatest rate_date on or before its as_of_date; it carries no rate when
\* there is none, so a rate dated after as_of_date is never used.
C11_LatestRateOnOrBefore ==
    nav_views = "built" =>
        \A row \in NavUsdRows :
            ~SqlEqText(row.fx_from_currency, USD) =>
                LET cands == RatesOnOrBefore(row.fx_from_currency, row.as_of_date)
                IN  IF cands = {}
                    THEN row.fx_rate_date = NullNum /\ row.fx_rate_to_usd = NullNum
                    ELSE \E f \in cands :
                            /\ \A g \in cands : g.rate_date <= f.rate_date
                            /\ row.fx_rate_date = f.rate_date
                            /\ row.fx_rate_to_usd = f.fx_rate

\* a GBX row as of day 2, with GBP rates of day 1 and day 3, uses the rate of day 1
C11_Witness ==
    /\ nav_views = "built"
    /\ \E f, g \in fx_rates :
        /\ SqlEq(f.from_currency, GBP) /\ f.rate_date = 1
        /\ SqlEq(g.from_currency, GBP) /\ g.rate_date = 3 /\ SqlEq(g.to_currency, USD)
    /\ \E row \in NavUsdRows :
        /\ row.fx_from_currency = GBP
        /\ row.as_of_date = 2
        /\ row.fx_rate_date = 1
        /\ row.fx_rate_to_usd = 125

\* C12: in every vw_nav_usd row fx_staleness_days is NULL or an integer >= 0,
\* and it is 0 in the rows whose fx_from_currency is USD.
C12_StalenessNonNegative ==
    nav_views = "built" =>
        \A row \in NavUsdRows :
            /\ row.fx_staleness_days = NullNum \/ row.fx_staleness_days >= 0
            /\ SqlEqText(row.fx_from_currency, USD) => row.fx_staleness_days = 0

\* the view holds a USD row (staleness 0), a row with a rate one day old
\* and a row without a rate (staleness NULL)
C12_Witness ==
    /\ nav_views = "built"
    /\ \E row \in NavUsdRows :
        row.fx_from_currency = USD /\ row.fx_staleness_days = 0
    /\ \E row \in NavUsdRows :
        row.fx_from_currency # USD /\ row.fx_staleness_days = 1
    /\ \E row \in NavUsdRows :
        row.fx_from_currency # USD /\ row.fx_staleness_days = NullNum

\* the rows of vw_nav_usd made from one row of vw_nav_unified
UsdRowsOf(j) == {UsdRow(k) : k \in {x \in vw_nav_usd : x.u = j}}

\* C13: a unified NAV row of a currency other than USD, with no rate to USD
\* dated on or before its as_of_date, is in vw_nav_usd all the same, with
\* nav_price_usd NULL and fx_staleness_days NULL.
C13_MissingRateKeepsRow ==
    nav_views = "built" =>
        \A j \in vw_nav_unified :
            LET n == UnifiedRow(j)
                from == fx_from_currency(n.nav_currency)
            IN  (~SqlEqText(from, USD) /\ RatesOnOrBefore(from, n.as_of_date) = {}) =>
                    /\ UsdRowsOf(j) # {}
                    /\ \A row \in UsdRowsOf(j) :
                        /\ row.source_row_id = n.source_row_id
                        /\ row.nav_price = n.nav_price
                        /\ row.nav_price_usd = NullNum
                        /\ row.fx_staleness_days = NullNum

\* a EUR row as of day 2 whose only EUR rate is dated day 3 is in the view,
\* without a USD price
C13_Witness ==
    /\ nav_views = "built"
    /\ \E f \in fx_rates : f.from_currency = EUR /\ f.to_currency = USD /\ f.rate_date = 3
    /\ \A f \in fx_rates : f.from_currency = EUR => f.rate_date = 3
    /\ \E row \in NavUsdRows :
        /\ row.fx_from_currency = EUR
        /\ row.as_of_date = 2
        /\ row.nav_price = 200
        /\ row.nav_price_usd = NullNum
        /\ row.fx_staleness_days = NullNum

\* the pair (fx_from_currency, unit_factor in hundredths) of an upper-cased code
CurrencyPair(code) ==
    IF code = GBX THEN <<GBP, 1>>
    ELSE IF code = ZAX THEN <<ZAR, 1>>
    ELSE IF code = CNH THEN <<CNY, 100>>
    ELSE IF code = ILA THEN <<ILS, 100>>
    ELSE <<code, 100>>

\* C14: vw_nav_usd maps the upper-cased NAV currency to (fx_from_currency,
\* unit_factor): GBX to (GBP, 0.01), ZAX to (ZAR, 0.01), CNH to (CNY, 1),
\* ILA to (ILS, 1), any other code to (itself, 1); nav_price_usd is
\* nav_price * unit_factor * fx_rate when fx_from_currency is not USD and a
\* rate was found, and nav_price * unit_factor, with no rate, when it is USD.
C14_CurrencyMapAndPrice ==
    nav_views = "built" =>
        \A row \in NavUsdRows :
            /\ row.fx_from_currency = CurrencyPair(row.nav_currency)[1]
            /\ row.unit_factor = CurrencyPair(row.nav_currency)[2]
            /\ (row.nav_price # NullNum /\ row.fx_from_currency = USD) =>
                    row.nav_price_usd = row.nav_price * row.unit_factor * 100
            /\ (row.nav_price # NullNum /\ row.fx_from_currency # USD
                    /\ row.fx_rate_to_usd # NullNum) =>
                    row.nav_price_usd = row.nav_price * row.unit_factor * row.fx_rate_to_usd

\* 50 GBX at a GBP rate of 1.25 is 0.625 USD, next to a ZAX row, an ILA row
\* and a USD row priced 1.00 without a rate
C14_Witness ==
    /\ nav_views = "built"
    /\ \E row \in NavUsdRows :
        /\ row.nav_currency = GBX /\ row.nav_price = 5000
        /\ row.fx_from_currency = GBP /\ row.unit_factor = 1
        /\ row.fx_rate_to_usd = 125
        /\ row.nav_price_usd = 625000
    /\ \E row \in NavUsdRows :
        /\ row.nav_currency = ZAX /\ row.fx_from_currency = ZAR /\ row.unit_factor = 1
    /\ \E row \in NavUsdRows :
        /\ row.fx_from_currency = USD /\ row.fx_rate_to_usd = NullNum
        /\ row.nav_price = 100 /\ row.unit_factor = 100 /\ row.nav_price_usd = 1000000
    /\ \E row \in NavUsdRows :
        row.nav_currency = ILA /\ row.fx_from_currency = ILS /\ row.unit_factor = 100

\* the rows of vw_nav_usd that carry a (source_name, ticker, as_of_date) triple
RowsOfTriple(source_name, ticker, as_of_date) ==
    {k \in vw_nav_usd : /\ UsdRow(k).source_name = source_name
                        /\ UsdRow(k).ticker = ticker
                        /\ UsdRow(k).as_of_date = as_of_date}

\* C15: vw_nav_usd holds exactly one row for every (source_name, ticker,
\* as_of_date) triple of the unified NAV input, whatever the staging tables,
\* the master-ticker tables and daily_fx_rates hold within their unique keys.
C15_OneRowPerTriple ==
    nav_views = "built" =>
        \A j \in vw_nav_unified :
            LET n == UnifiedRow(j)
            IN  Cardinality(RowsOfTriple(n.source_name, n.ticker, n.as_of_date)) = 1

\* the rows of vw_nav_unified made from one staging row
UnifiedRowsOf(source_name, r) ==
    {j \in vw_nav_unified : j.source_name = source_name /\ j.nav = r}

\* the rows of vw_nav_usd made from one staging row
UsdRowsFrom(source_name, r) ==
    {k \in vw_nav_usd : k.u.source_name = source_name /\ k.u.nav = r}

\* C15, as the views behave: every staging row gives exactly one row of
\* vw_nav_unified and exactly one row of vw_nav_usd (neither join multiplies
\* or drops rows), so a Yahoo Finance or Stock Analysis triple with a
\* non-NULL as_of_date has exactly one row; Financial Times rows are unique
\* per (ft_ticker, nav_as_of) only.
C15_OneRowPerStagingRow ==
    nav_views = "built" =>
        /\ \A r \in ft_nav :
            Cardinality(UnifiedRowsOf(FtSource, r)) = 1
                /\ Cardinality(UsdRowsFrom(FtSource, r)) = 1
        /\ \A r \in yf_nav :
            Cardinality(UnifiedRowsOf(YfSource, r)) = 1
                /\ Cardinality(UsdRowsFrom(YfSource, r)) = 1
        /\ \A r \in sa_nav :
            Cardinality(UnifiedRowsOf(SaSource, r)) = 1
                /\ Cardinality(UsdRowsFrom(SaSource, r)) = 1
        /\ Cardinality(vw_nav_usd)
                = Cardinality(ft_nav) + Cardinality(yf_nav) + Cardinality(sa_nav)
        /\ \A r \in yf_nav \cup sa_nav :
            r.as_of_date # NullNum =>
                \A src \in {YfSource, SaSource} :
                    UsdRowsFrom(src, r) # {} =>
                        RowsOfTriple(src, r.ticker, r.as_of_date) = UsdRowsFrom(src, r)

\* two Financial Times listings of ticker A as of day 2 are two view rows,
\* and a Yahoo Finance row that found its master row and a rate is one
C15_Witness ==
    /\ nav_views = "built"
    /\ Cardinality(RowsOfTriple(FtSource, <<"A">>, 2)) = 2
    /\ \E k \in vw_nav_usd :
        /\ k.u.source_name = YfSource
        /\ k.u.m # NoMaster
        /\ k.fx # NoFx
        /\ RowsOfTriple(YfSource, k.u.nav.ticker, k.u.nav.as_of_date) = {k}

-----------------------------------------------------------------------------
(* load_latest_source_rows and build_snapshot: properties *)

\* the source_priority the ISIN merge gives a source
IsinPriorityOf(source_name) ==
    CASE source_name = FtSource -> FtPriority
      [] source_name = YfSource -> YfPriority
      [] source_name = SaSource -> SaPriority

\* the rows of the loaded list that build_snapshot files under a ticker
CoveringRows(t) ==
    {snap_rows[i] : i \in {x \in 1..Len(snap_rows) : SnapKey(snap_rows[x].ticker) = t}}

\* the sources that list a ticker
CoverageOf(t) == {r.source : r \in CoveringRows(t)}

\* the members of a coverage in a given order of the sources
InOrder(order, coverage) == SelectSeq(order, LAMBDA x : x \in coverage)

\* the sources by ascending ISIN-merge priority
ByIsinPriority ==
    CHOOSE o \in Orderings({FtSource, YfSource, SaSource}) :
        \A i, j \in 1..Len(o) : i < j => IsinPriorityOf(o[i]) < IsinPriorityOf(o[j])

\* C16: the lifecycle engine ranks the sources as the ISIN merge does,
\* Financial Times, Yahoo Finance, Stock Analysis: preferred_source is the
\* first member of the coverage in that order and source_coverage lists the
\* coverage in that order.
C16_RanksLikeIsinMerge ==
    snap_pc = "built" =>
        \A i \in 1..Len(snap_out) :
            LET cov == InOrder(ByIsinPriority, CoverageOf(snap_out[i].ticker))
            IN  /\ snap_out[i].preferred_source = cov[1]
                /\ snap_out[i].source_coverage = Join(cov)

\* C16, as the code ranks: Financial Times, Stock Analysis, Yahoo Finance.
\* preferred_source is the first member of the coverage in that order and
\* source_coverage lists the coverage in that order.
C16_RanksFtSaYf ==
    snap_pc = "built" =>
        \A i \in 1..Len(snap_out) :
            LET cov == InOrder(<<FtSource, SaSource, YfSource>>,
                               CoverageOf(snap_out[i].ticker))
            IN  /\ snap_out[i].preferred_source = cov[1]
                /\ snap_out[i].source_coverage = Join(cov)

\* a ticker listed by Yahoo Finance and Stock Analysis only has
\* preferred_source Stock Analysis
C16_Witness ==
    /\ snap_pc = "built"
    /\ \E i \in 1..Len(snap_out) :
        /\ CoverageOf(snap_out[i].ticker) = {YfSource, SaSource}
        /\ snap_out[i].preferred_source = SaSource
        /\ snap_out[i].source_coverage = "Stock Analysis,Yahoo Finance"

-----------------------------------------------------------------------------
(* Lifecycle merge: a master-list table that does not exist *)

\* C17: when the master-list table of a source does not exist,
\* merge_security_master aborts before any write: the run reports failure
\* and the registry is as it was.
C17_AbortsOnMissingTable ==
    life_missing # {} => (life_outcome = "failed" /\ registry = life_pre)

\* the master-list tables by source, for the sources whose table exists
SnapTables ==
    { <<FtSource, snap_ft>>, <<YfSource, snap_yf>>, <<SaSource, snap_sa>> }

\* MAX(date_scraper) of a table that has rows
MaxDateScraper(tbl) ==
    CHOOSE d \in {r.date_scraper : r \in tbl} : \A q \in tbl : q.date_scraper <= d

\* the positions of the loaded list that hold a given row
PositionsOf(row) == {i \in 1..Len(snap_rows) : snap_rows[i] = row}

\* C18: load_latest_source_rows selects a master-list row of a source if and
\* only if its date_scraper is the maximum date_scraper of that source's own
\* table, whatever the dates of the other sources: every row of the source's
\* latest list is returned (once), no row of an older list is, and the list
\* holds nothing else.
C18_OwnLatestList ==
    snap_pc # "idle" =>
        /\ \A st \in SnapTables :
            st[1] \notin snap_missing =>
                \A r \in st[2] :
                    IF r.date_scraper = MaxDateScraper(st[2])
                    THEN Cardinality(PositionsOf(SourceRow(st[1], r))) = 1
                    ELSE PositionsOf(SourceRow(st[1], r)) = {}
        /\ \A i \in 1..Len(snap_rows) :
            \E st \in SnapTables :
                /\ st[1] = snap_rows[i].source
                /\ \E r \in st[2] : snap_rows[i] = SourceRow(st[1], r)

\* Yahoo Finance's latest list (day 1) is older than Financial Times' (day 3)
\* and is returned whole, while the day-1 row of Stock Analysis, whose latest
\* list is of day 2, is not returned
C18_Witness ==
    /\ snap_pc = "loaded"
    /\ \E r \in snap_ft : r.date_scraper = 3
    /\ Cardinality(snap_yf) = 2
    /\ \A r \in snap_yf : r.date_scraper = 1 /\ PositionsOf(SourceRow(YfSource, r)) # {}
    /\ \E r, q \in snap_sa :
        /\ r.date_scraper = 2 /\ PositionsOf(SourceRow(SaSource, r)) # {}
        /\ q.date_scraper = 1 /\ PositionsOf(SourceRow(SaSource, q)) = {}

\* is a source's value a placeholder null
IsPlaceholder(value) == value = None \/ Upper(Strip(value)) \in PLACEHOLDER_NULLS

\* the fields build_snapshot picks: the column of the source row and the
\* field of the snapshot
PickedFields ==
    { <<"name", "name">>, <<"ticker_type", "ticker_type">>, <<"url", "canonical_url">> }

-----------------------------------------------------------------------------
(* build_ticker_to_isin_map: properties *)

\* the positions of a candidate list whose non-empty ticker, upper-cased, is t
TickerPositions(rows, t) ==
    {i \in 1..Len(rows) : rows[i].ticker # <<>> /\ Upper(rows[i].ticker) = t}

\* the last of a non-empty set of positions
LastOf(positions) == CHOOSE i \in positions : \A j \in positions : j <= i

\* the upper-cased non-empty tickers of both lists
MappedTickers ==
    {Upper(c.ticker) : c \in {x \in Range(map_ft) \cup Range(map_sa) : x.ticker # <<>>}}

\* C20: for every upper-cased non-empty ticker t the map holds the ISIN of a
\* Financial Times candidate whenever one has ticker t, and otherwise the
\* ISIN of a Stock Analysis candidate with ticker t; of several candidates
\* of the same source with ticker t it is the last in list order; a
\* candidate with an empty ticker adds no key.
C20_FtOverridesSaLastWins ==
    map_pc = "built" =>
        /\ DOMAIN map_out = MappedTickers
        /\ <<>> \notin DOMAIN map_out
        /\ \A t \in MappedTickers :
            LET ftp == TickerPositions(map_ft, t)
                sap == TickerPositions(map_sa, t)
            IN  IF ftp # {} THEN map_out[t] = map_ft[LastOf(ftp)].isin_number
                ELSE map_out[t] = map_sa[LastOf(sap)].isin_number

\* ticker ABC is held by two Financial Times candidates and a Stock Analysis
\* one, XYZ by two Stock Analysis candidates, and one candidate has no
\* ticker: ABC maps to the later Financial Times ISIN, XYZ to the later
\* Stock Analysis ISIN
C20_Witness ==
    /\ map_pc = "built"
    /\ Len(map_ft) = 3 /\ map_ft[1].isin_number = IsinA /\ map_ft[3].isin_number = IsinB
    /\ map_ft[2].ticker = <<>>
    /\ Len(map_sa) = 3 /\ map_sa[1].isin_number = IsinC /\ map_sa[3].isin_number = IsinA
    /\ DOMAIN map_out = {<<"A", "B", "C">>, <<"X", "Y", "Z">>}
    /\ map_out[<<"A", "B", "C">>] = IsinB
    /\ map_out[<<"X", "Y", "Z">>] = IsinA

-----------------------------------------------------------------------------
(* load_ft_candidates and load_sa_candidates: properties *)

\* the rows of a table whose ISIN normalizes to a value
RowsOfIsin(tbl, isin) == {r \in tbl : NormIsin(r.isin_number) = isin}

\* the normalized ISINs that occur in a table
IsinsIn(tbl) == {NormIsin(r.isin_number) : r \in tbl} \ {None}

\* the positions of a candidate list that hold an ISIN
IsinPositions(rows, isin) == {i \in 1..Len(rows) : rows[i].isin_number = isin}

\* C21: for every normalized ISIN of the FT (SA) staging table the loader
\* emits exactly one candidate, built from a row that no row of the same
\* normalized ISIN is more recently updated than; a row whose ISIN has not
\* 12 characters gives no candidate and suppresses none.
C21_MostRecentRowPerIsin ==
    ld_pc = "loaded" =>
        /\ \A isin \in IsinsIn(ld_ft_static) :
            /\ Cardinality(IsinPositions(ld_ft_rows, isin)) = 1
            /\ \E r \in RowsOfIsin(ld_ft_static, isin) :
                /\ \A i \in IsinPositions(ld_ft_rows, isin) :
                    ld_ft_rows[i] = FtCandidate(r, isin)
                /\ \A q \in RowsOfIsin(ld_ft_static, isin) : q.updated_at <= r.updated_at
        /\ \A i \in 1..Len(ld_ft_rows) : ld_ft_rows[i].isin_number \in IsinsIn(ld_ft_static)
        /\ \A isin \in IsinsIn(ld_sa_static) :
            /\ Cardinality(IsinPositions(ld_sa_rows, isin)) = 1
            /\ \E r \in RowsOfIsin(ld_sa_static, isin) :
                /\ \A i \in IsinPositions(ld_sa_rows, isin) :
                    ld_sa_rows[i] = SaCandidate(r, isin)
                /\ \A q \in RowsOfIsin(ld_sa_static, isin) : q.updated_at <= r.updated_at
        /\ \A i \in 1..Len(ld_sa_rows) : ld_sa_rows[i].isin_number \in IsinsIn(ld_sa_static)

\* Stock Analysis holds ISIN A in an older and a newer row and a newest row
\* with a seven-character ISIN: the candidate of A is the newer row's, and
\* the short ISIN gives none
C21_Witness ==
    /\ ld_pc = "loaded"
    /\ Cardinality(RowsOfIsin(ld_sa_static, IsinA)) = 2
    /\ \E r \in ld_sa_static : r.isin_number = IsinShort /\ r.updated_at = 3
    /\ Len(ld_sa_rows) = 1
    /\ ld_sa_rows[1].isin_number = IsinA
    /\ ld_sa_rows[1].name = <<"S", "a", "2">>
    /\ Cardinality(RowsOfIsin(ld_ft_static, IsinA)) >= 2
    /\ Len(ld_ft_rows) = 1

-----------------------------------------------------------------------------
(* ISIN merge: equal priorities in the pool *)

\* the pairs of pool positions that hold one ISIN and one source_priority
PoolTies ==
    {<<i, j>> \in (1..Len(Pool)) \X (1..Len(Pool)) :
        /\ i < j
        /\ Pool[i].isin_number = Pool[j].isin_number
        /\ Pool[i].source_priority = Pool[j].source_priority}

\* C22 (as claimed): no two candidates of the pool have both the same ISIN
\* and the same source_priority.
C22_NoTiesInPool == IsinRunDone => PoolTies = {}

\* C22 (amended): two candidates of the pool that have the same ISIN and the
\* same source_priority are both Yahoo Finance candidates, of different
\* tickers, and the pool holds a Financial Times candidate of that ISIN.
C22_TiesOnlyYfUnderFt ==
    IsinRunDone =>
        \A t \in PoolTies :
            /\ Pool[t[1]].source = YfSource
            /\ Pool[t[2]].source = YfSource
            /\ Pool[t[1]].ticker # Pool[t[2]].ticker
            /\ \E c \in Group(Pool, Pool[t[1]].isin_number) : c.source = FtSource

\* two Yahoo Finance tickers were mapped to one ISIN, one through the
\* Financial Times candidate and one through the Stock Analysis candidate
C22_Witness ==
    /\ isin_pc = "merged"
    /\ PoolTies # {}
    /\ Len(yf_rows) = 2
    /\ yf_rows[1].isin_number = yf_rows[2].isin_number

\* the candidates of an ISIN that carry its lowest source_priority
MinCandidates(cands, isin) ==
    {i \in 1..Len(cands) : /\ cands[i].isin_number = isin
                           /\ cands[i].source_priority = MinPriority(cands, isin)}

\* C30: the lowest-priority candidate of every ISIN of the pool is unique and
\* is the merged row of that ISIN, and a merged row has source Yahoo Finance
\* only for an ISIN that Stock Analysis has and Financial Times has not.
C30_UniqueMinimum ==
    IsinRunDone =>
        /\ \A isin \in IsinsOf(Pool) :
            /\ Cardinality(MinCandidates(Pool, isin)) = 1
            /\ \A i \in MinCandidates(Pool, isin) : Pool[i] \in Group(merged, isin)
        /\ \A i \in 1..Len(merged) :
            merged[i].source = YfSource =>
                /\ merged[i].isin_number \in IsinsOf(sa_rows)
                /\ merged[i].isin_number \notin IsinsOf(ft_rows)

\* an ISIN with two Yahoo Finance candidates is won by Financial Times
C30_Witness ==
    /\ isin_pc = "merged"
    /\ \E t \in PoolTies :
          /\ Pool[t[1]].source_priority = YfPriority
          /\ \E i \in 1..Len(merged) :
                /\ merged[i].isin_number = Pool[t[1]].isin_number
                /\ merged[i].source = FtSource

-----------------------------------------------------------------------------
(* ISIN merge: what a committed run does to the store *)

\* the eight fields of a stored row equal a candidate's
SameFields(r, c) ==
    /\ r.ticker = c.ticker
    /\ r.name = c.name
    /\ r.ticker_type = c.ticker_type
    /\ r.source = c.source
    /\ r.source_priority = c.source_priority
    /\ r.canonical_url = c.canonical_url
    /\ r.ft_ticker = c.ft_ticker
    /\ r.mapped_from = c.mapped_from

\* the rows of a table stored under an ISIN
StoredUnder(tbl, isin) == {r \in tbl : NormIsin(r.isin_number) = isin}

\* C23: a committed run leaves the store equal to the store it found,
\* overridden at the winners' ISINs: the row of a merged ISIN holds the
\* winner's eight fields (NULLs included) and the run's merged_at, a row of
\* any other ISIN is kept with every field unchanged, and no row is deleted.
C23_StoreOverriddenAtWinners ==
    isin_pc = "committed" =>
        /\ \A i \in 1..Len(merged) :
            /\ Cardinality(StoredUnder(store, merged[i].isin_number)) = 1
            /\ \A r \in StoredUnder(store, merged[i].isin_number) :
                  SameFields(r, merged[i]) /\ r.merged_at = isin_now
        /\ \A q \in isin_pre :
            NormIsin(q.isin_number) \notin IsinsOf(merged) => q \in store
        /\ \A r \in store :
            NormIsin(r.isin_number) \notin IsinsOf(merged) => r \in isin_pre
        /\ \A q \in isin_pre : StoredUnder(store, NormIsin(q.isin_number)) # {}

\* the second run overwrites the Financial Times row of an ISIN with a
\* winner whose ft_ticker is NULL and keeps the row of an ISIN that is no
\* longer staged
C23_Witness ==
    /\ isin_pc = "committed"
    /\ \E r \in store, q \in isin_pre :
          /\ r.isin_number = q.isin_number
          /\ q.ft_ticker # None /\ r.ft_ticker = None
          /\ r.merged_at = isin_now
    /\ \E r \in store :
          /\ r \in isin_pre
          /\ r.merged_at < isin_now
          /\ r.isin_number \notin IsinsOf(merged)

-----------------------------------------------------------------------------
(* Lifecycle merge: the rows of the run's snapshot, and the rows that stay new *)

\* C28: when a lifecycle run has committed, whatever inactive_days it was
\* given (zero and negative included) and whatever registry it found, every
\* ticker of its snapshot has one registry row, whose last_seen is the run
\* date and whose status is new or active.
C28_SnapshotTickersNotInactive ==
    life_outcome = "committed" =>
        \A t \in SnapTickers(snapshots) :
            /\ t \in TickersOf(registry)
            /\ Cardinality({r \in registry : r.ticker = t}) = 1
            /\ RowOf(registry, t).last_seen = today
            /\ RowOf(registry, t).status \in {STATUS_NEW, STATUS_ACTIVE}

\* a run whose cutoff lies after the run date expires a ticker of its own
\* snapshot and revives it in the next statement
C28_Witness ==
    /\ life_outcome = "committed"
    /\ cutoff > today
    /\ \E t \in SnapTickers(snapshots) :
          /\ RowOf(after_expire, t).status = STATUS_INACTIVE
          /\ RowOf(registry, t).status = STATUS_ACTIVE
          /\ RowOf(registry, t).last_seen = today

\* C29: when a lifecycle run has committed, every registry row of status new
\* has a NULL or empty name, the run has turned no new row inactive, and a
\* row that was new before the run and has no name after it is still new.
C29_NewHasNoName ==
    life_outcome = "committed" =>
        /\ \A r \in registry : r.status = STATUS_NEW => ~NonEmpty(r.name)
        /\ \A r \in after_promote :
              r.status = STATUS_NEW => RowOf(registry, r.ticker).status = STATUS_NEW
        /\ \A r \in life_pre :
              r.status = STATUS_NEW =>
                  /\ r.ticker \in TickersOf(registry)
                  /\ ~NonEmpty(RowOf(registry, r.ticker).name)
                        => RowOf(registry, r.ticker).status = STATUS_NEW

\* a nameless row that an earlier run stored as new is not in the run's
\* snapshot, was last seen before the cutoff, and is still new
C29_Witness ==
    /\ life_outcome = "committed"
    /\ \E r \in life_pre :
          /\ r.status = STATUS_NEW
          /\ r.ticker \notin SnapTickers(snapshots)
          /\ r.last_seen < cutoff
          /\ RowOf(registry, r.ticker) = r

-----------------------------------------------------------------------------
(* latest_nav: properties *)

LnUnion == UnionNav(ln_ft, ln_yf, ln_sa)

\* C24 (as claimed): latest_nav yields exactly one row per ticker, a row of
\* the most recent as_of_date of the ticker across the three NAV tables and,
\* among the rows of that date, of the first source in the order Financial
\* Times, Yahoo Finance, Stock Analysis; and the row is determined by the
\* tables: no other row of the ticker has that date and that source.
C24_LatestNavDeterministic ==
    ln_pc = "selected" =>
        /\ \A v \in LnUnion : Cardinality(latest_nav \cap Partition(LnUnion, v.ticker_key)) = 1
        /\ \A r \in latest_nav :
              /\ r \in LnUnion
              /\ \A q \in Partition(LnUnion, r.ticker_key) :
                    /\ q.as_of_date <= r.as_of_date
                    /\ q.as_of_date = r.as_of_date
                          => NavSourceRank(r.nav_source) <= NavSourceRank(q.nav_source)
                    /\ (q.as_of_date = r.as_of_date /\ q.nav_source = r.nav_source) => q = r

\* what holds of latest_nav: one row per ticker, of the most recent date
\* and, at that date, of the first source
C24_LatestNavOneRowPerTicker ==
    ln_pc = "selected" =>
        /\ \A v \in LnUnion : Cardinality(latest_nav \cap Partition(LnUnion, v.ticker_key)) = 1
        /\ \A r \in latest_nav :
              /\ r \in LnUnion
              /\ \A q \in Partition(LnUnion, r.ticker_key) :
                    /\ q.as_of_date <= r.as_of_date
                    /\ q.as_of_date = r.as_of_date
                          => NavSourceRank(r.nav_source) <= NavSourceRank(q.nav_source)

\* the three sources hold the ticker A at the same most recent date and the
\* Financial Times row is chosen
C24_SourceTieReached ==
    /\ ln_pc = "selected"
    /\ \E r \in latest_nav :
          /\ r.nav_source = FtSource
          /\ {q.nav_source : q \in {p \in Partition(LnUnion, r.ticker_key) :
                                      p.as_of_date = r.as_of_date}}
                = {FtSource, YfSource, SaSource}

-----------------------------------------------------------------------------
(* Data quality report and holdings loader: properties *)

\* the values of the duplicate key that occur in a table, one per class of
\* the table's collation
DistinctKeys(tbl) == {Upper(RTrim(DupKey(v))) : v \in {x \in HoldUniverse : tbl[x] > 0}}

\* no two rows of a table have the same key
NoKeyRepeats(tbl) ==
    \A v, w \in HoldUniverse :
        (tbl[v] > 0 /\ tbl[w] > 0 /\ SqlEq(DupKey(v), DupKey(w))) => (v = w /\ tbl[v] = 1)

\* C25: the dup_rows that run_checks reports for a table equals total_rows
\* minus the number of distinct key values, is 0 exactly when no key
\* repeats, and the table holds after the report the rows it held when it
\* was read.
C25_DupRowsIsTotalMinusKeys ==
    dq_report.known =>
        /\ dq_report.dup_rows = dq_report.total_rows - Cardinality(DistinctKeys(dq_report.read))
        /\ dq_report.dup_rows = 0 <=> NoKeyRepeats(dq_report.read)
        /\ stg_ft_holdings = dq_report.read

\* the report of a table of five rows under two keys, one key held by three
\* rows of two spellings and one by two equal rows
C25_Witness ==
    /\ hold_pc = "reported"
    /\ dq_report.total_rows = 5
    /\ dq_report.dup_rows = 3
    /\ Cardinality(KeyGroups(dq_report.read)) = 2
    /\ \E g \in KeyGroups(dq_report.read) : Cardinality(g) = 2

\* C27 (as claimed): a committed call of write_holdings that follows a
\* committed call with the same input rows leaves stg_ft_holdings with the
\* rows the earlier call left, whatever the days of the calls and the
\* date_scraper of the rows.
C27_WriteHoldingsIdempotent ==
    (hold_pc = "written" /\ hold_prev.known /\ hold_prev.input = hold_input) =>
        stg_ft_holdings = hold_prev.left

-----------------------------------------------------------------------------
(* run_data_pipeline: properties *)

\* the steps are started in the order of POST_STEPS, each at most once
\* (retries aside), and only enabled steps are started
StartedInOrder ==
    /\ \A k \in 1..Len(pipe_started) : pipe_started[k] \in pipe_cfg.enabled
    /\ \A k, l \in 1..Len(pipe_started) : k < l => pipe_started[k] < pipe_started[l]

\* a started step finds every enabled earlier step exited with status 0 and
\* the three source pipelines returned without error
StartedAfterSuccess ==
    /\ \A k \in 1..Len(pipe_started) :
          \A j \in pipe_cfg.enabled : j < pipe_started[k] => pipe_exit[j] = 0
    /\ (pipe_started # <<>> \/ pipe_pc \in {"post", "finished"}) =>
          \A s \in DOMAIN pipe_src : pipe_src[s] = "done"

\* C26 (as claimed): the enabled post-processing steps start in the fixed
\* order, a step starts only after every enabled earlier step exited with
\* status 0 and the three source pipelines finished without error, and once
\* any script has exited non-zero no later step is started.
C26_NoStepAfterNonZeroExit ==
    /\ StartedInOrder
    /\ StartedAfterSuccess
    /\ pipe_nonzero # 0 => \A k \in 1..Len(pipe_started) : pipe_started[k] <= pipe_nonzero

\* C26 (amended): the same order and preconditions; a script that exits
\* non-zero is started again while the task has a retry left, and no later
\* step is started once the last attempt of a script has exited non-zero,
\* which ends the flow.
C26_NoStepAfterFailedTask ==
    /\ StartedInOrder
    /\ StartedAfterSuccess
    /\ pipe_attempt <= TaskRetries(pipe_cfg.prefect)
    /\ \A i \in PostIndexes :
          pipe_exit[i] = 1 =>
              /\ \A k \in 1..Len(pipe_started) : pipe_started[k] <= i
              /\ pipe_step = i
              /\ pipe_pc = "failed" \/ (pipe_pc = "post" /\ pipe_attempt = 1)

\* a parallel run with one step disabled finishes after a script exited
\* non-zero, was retried and exited 0, and the steps after it ran
C26_Witness ==
    /\ pipe_pc = "finished"
    /\ pipe_cfg.parallel_by_source
    /\ Len(pipe_started) = Len(POST_STEPS) - 1
    /\ pipe_nonzero \in PostIndexes
    /\ pipe_nonzero < pipe_started[Len(pipe_started)]

====
